---- MODULE Spec2Model ----
(***************************************************************************)
(* The legacy-ABI (VST2) plugin bridge of yabridge, native side (N), with  *)
(* the foreign host process (F) and the DAW as its environment.            *)
(*                                                                         *)
(* N's threads: any number of host threads calling getParameter /          *)
(* setParameter, the host's audio thread (process), the host's GUI thread   *)
(* (dispatch) and the bridge's own callback-receive thread.  Every socket  *)
(* is a pair of FIFO queues.  A send or a receive on a socket whose peer   *)
(* is gone raises std::system_error (vst2.cpp:562-565).                    *)
(***************************************************************************)
EXTENDS Integers, Sequences, FiniteSets, TLC

\* ------------------------------------------------------------------ bounds
NumParThreads == 2      \* host threads that call getParameter/setParameter
MaxValue == 1           \* parameter values are 0..MaxValue
MaxBlocks == 2          \* audio calls made by the host
MaxFrames == 2          \* largest block size the host configures
MaxMidi == 2            \* MIDI event bundles the plugin sends
MaxResize == 2          \* resize requests the plugin sends
MaxOther == 1           \* other (passed through) callbacks the plugin makes

MaxChunk == 2           \* longest state chunk, in bytes
MaxParams == 1          \* numParams of the plugin is 0..MaxParams
MaxInstances == 2       \* plugin objects the host creates (modern ABI)
NumVst3Threads == 2     \* host threads calling into the proxies
MaxVst3Calls == 3       \* what the host does: creations, calls, releases
MaxHostObjects == 2     \* host-owned objects handed to the proxies

NumInputs == 1          \* input channels of the plugin F loaded
NumOutputs == 1         \* output channels of the plugin F loaded

StartTime == 11         \* the clock at start: later than 10 s after the epoch
MaxTime == 23           \* the clock stops here
MaxGuards == 3          \* Guard objects of the scoped cache
MaxLifetime == 2
MaxScopes == 3
MaxDepth == 4
MaxNameLen == 2        \* longest lifetime passed to the timed cache

\* std::optional<T>: the empty sequence is std::nullopt, <<x>> holds x
Nothing == <<>>
Some(x) == <<x>>
\* a mutex: Free, or the thread that holds it
Free == <<>>
ParThreads == 1..NumParThreads
Values == 0..MaxValue
\* The bytes of a chunk are copied and never looked at: two values tell a
\* changed byte from an unchanged one.
Bytes == {0, 1}
ByteSeqs == UNION {[1..n -> Bytes] : n \in 0..MaxChunk}

VARIABLES
    \* ---- F (the Wine plugin host) and the plugin it loaded
    f_alive,                        \* F's process is running
    f_params,                       \* the plugin's parameter value
    f_block_size,                   \* block size F was told (effSetBlockSize)
    f_sent,                         \* callbacks F has made so far, per kind
    f_ghost,                        \* what F read and wrote per audio block
    \* ---- sockets_
    host_vst_parameters_,           \* [req, resp]
    host_vst_process_replacing_,    \* [req, resp]
    host_vst_dispatch_,             \* [req, resp]
    vst_host_callback_,             \* [req, resp]  (req travels F -> N)
    \* ---- Vst2PluginBridge fields
    parameters_mutex_,              \* Free or the thread holding it
    incoming_midi_events_,          \* pending MIDI bundles
    incoming_midi_events_mutex_,
    incoming_resize_,               \* [set, storage]: the optional and its bytes
    incoming_resize_mutex_,
    process_buffers_,               \* std::optional<AudioShmBuffer>
    shm,                            \* the shared memory's samples
    bridge,                         \* "live", "deleting", "destroyed", "aborted"
    plugin_,                        \* the host-visible AEffect
    \* ---- threads of N
    par,                            \* per parameter thread
    aud,                            \* the audio thread inside do_process
    disp,                           \* the GUI thread inside dispatch
    cb,                             \* host_callback_handler_
    \* ---- the host (DAW)
    host,                           \* what the host did and observed
    \* ---- the state chunk of the plugin
    chunk_data_,                    \* std::vector<uint8_t>, the chunk buffer
    f_chunk,                        \* the state of the plugin on F, as a chunk
    \* ---- construction of the bridge
    host_vst_control_,              \* [to_n, to_f]
    ctor,                           \* the thread inside the constructor
    f_init,                         \* how far F's start-up has come
    \* ---- the modern-ABI (VST3) bridge
    plugin_proxies,                 \* the registry: instance ids of proxies
    proxy,                          \* per instance id: the proxy object
    f_objects,                      \* F's live objects and mirror proxies
    vst3_sock,                      \* [req, resp, cb]
    vst3_call,                      \* the host thread inside a proxy call
    vst3_log,                       \* messages sent, registry operations
    \* ---- the clock, the audio thread's scheduling, the configuration
    now,                            \* what time(nullptr) returns, in seconds
    last_audio_thread_priority_synchronization_,
    audio_thread_sched,             \* the priority under SCHED_FIFO, if any
    config_,                        \* [hide_daw]
    \* ---- the value caches
    scoped_value_cache,             \* ScopedValueCache<T>: [value_]
    guards,                         \* the Guard objects set() has returned
    timed_value_cache,              \* TimedValueCache<T>: [value_, valid_until_]
    cache_call,                     \* the last call on a cache and its result
    \* ---- the denormal-flush flag and the helper functions
    ftz_mode,                       \* the thread's flush-to-zero flag
    flush_scopes,                   \* the ScopedFlushToZero objects
    fn_call                         \* the last helper call and its result

vars == <<f_alive, f_params, f_block_size, f_sent, f_ghost,
          host_vst_parameters_, host_vst_process_replacing_,
          host_vst_dispatch_, vst_host_callback_,
          parameters_mutex_, incoming_midi_events_,
          incoming_midi_events_mutex_, incoming_resize_,
          incoming_resize_mutex_, process_buffers_, shm, bridge,
          plugin_, par, aud, disp, cb, host,
          chunk_data_, f_chunk, host_vst_control_, ctor, f_init,
          plugin_proxies, proxy, f_objects, vst3_sock, vst3_call, vst3_log,
          now, last_audio_thread_priority_synchronization_,
          audio_thread_sched, config_, scoped_value_cache, guards,
          timed_value_cache, cache_call, ftz_mode, flush_scopes, fn_call>>

fVars == <<f_alive, f_params, f_block_size, f_sent, f_ghost>>
sockVars == <<host_vst_parameters_, host_vst_process_replacing_,
              host_vst_dispatch_, vst_host_callback_>>
parVars == <<par, parameters_mutex_>>
audVars == <<aud, shm>>
midiVars == <<incoming_midi_events_, incoming_midi_events_mutex_>>
resizeVars == <<incoming_resize_, incoming_resize_mutex_>>
lifeVars == <<bridge, plugin_>>
chunkVars == <<chunk_data_, f_chunk>>
ctorVars == <<host_vst_control_, ctor, f_init>>
vst3Vars == <<plugin_proxies, proxy, f_objects, vst3_sock, vst3_call,
              vst3_log>>
prioVars == <<now, last_audio_thread_priority_synchronization_,
              audio_thread_sched>>
cacheVars == <<scoped_value_cache, guards, timed_value_cache, cache_call>>
miscVars == <<ftz_mode, flush_scopes, fn_call>>
utilVars == <<prioVars, config_, cacheVars, miscVars>>
extVars == <<chunkVars, ctorVars, vst3Vars, utilVars>>
vst2Vars == <<fVars, sockVars, parVars, audVars, midiVars, resizeVars,
              lifeVars, process_buffers_, disp, cb, host, chunkVars,
              ctorVars, utilVars>>

\* ----------------------------------------------------------------- sockets
EmptySocket == [req |-> <<>>, resp |-> <<>>]

\* send(): the object is written to the socket, or the write fails because the
\* peer is gone.
CanSend == f_alive
SendReq(sock, m) == [sock EXCEPT !.req = Append(@, m)]

\* receive_single(): blocks until an object can be read; bytes the peer wrote
\* before it died can still be read, after that the read fails.
CanReceive(sock) == sock.resp # <<>>
ReceiveFails(sock) == sock.resp = <<>> /\ ~f_alive
Received(sock) == Head(sock.resp)
DropResp(sock) == [sock EXCEPT !.resp = Tail(@)]

\* The host keeps to the ABI: no call into a plugin it has closed or is
\* closing.
HostMayCall == bridge = "live" /\ disp.opcode # "effClose"

\* ------------------------------------------------- getParameter/setParameter
ParIdle == [pc |-> "idle", index |-> 0, value |-> Nothing, response |-> Nothing]

\* get_parameter_proxy / set_parameter_proxy: the host calls in.  A request
\* without a value is a getParameter.
ParCall(t) ==
    /\ HostMayCall
    /\ par[t].pc = "idle"
    /\ \E v \in {Nothing} \cup {Some(x) : x \in Values} :
         par' = [par EXCEPT ![t] = [pc |-> "lock", index |-> 0, value |-> v,
                                    response |-> Nothing]]
    /\ host' = [host EXCEPT !.par_result[t] = [how |-> "pending"]]
    /\ UNCHANGED <<fVars, sockVars, parameters_mutex_, midiVars, resizeVars,
                   process_buffers_, shm, lifeVars, aud, disp, cb>>
    /\ UNCHANGED extVars

\* std::lock_guard lock(parameters_mutex_)
ParLockNoMutex(t) == TRUE
ParLockGuard(t) == parameters_mutex_ = Free

ParLock(t) ==
    /\ par[t].pc = "lock"
    /\ ParLockGuard(t)
    /\ parameters_mutex_' = Some(t)
    /\ par' = [par EXCEPT ![t].pc = "send"]
    /\ UNCHANGED <<fVars, sockVars, midiVars, resizeVars, process_buffers_,
                   shm, lifeVars, aud, disp, cb, host>>
    /\ UNCHANGED extVars

\* An exception leaves the scope of the lock_guard: the mutex is released and
\* the exception leaves get_parameter/set_parameter, which catch nothing.
ParThrow(t) ==
    /\ parameters_mutex_' = IF parameters_mutex_ = Some(t) THEN Free
                            ELSE parameters_mutex_
    /\ par' = [par EXCEPT ![t] = ParIdle]
    /\ host' = [host EXCEPT !.par_result[t] = [how |-> "exception"]]

\* sockets_.host_vst_parameters_.send(request)
ParSend(t) ==
    /\ par[t].pc = "send"
    /\ IF CanSend
         THEN /\ host_vst_parameters_' =
                    SendReq(host_vst_parameters_,
                            [index |-> par[t].index, value |-> par[t].value,
                             from |-> t])
              /\ par' = [par EXCEPT ![t].pc = "recv"]
              /\ UNCHANGED <<parameters_mutex_, host>>
         ELSE /\ ParThrow(t)
              /\ UNCHANGED host_vst_parameters_
    /\ UNCHANGED <<fVars, host_vst_process_replacing_, host_vst_dispatch_,
                   vst_host_callback_, midiVars, resizeVars, process_buffers_,
                   shm, lifeVars, aud, disp, cb>>
    /\ UNCHANGED extVars

\* response = sockets_.host_vst_parameters_.receive_single<ParameterResult>()
\* and the end of the lock_guard's scope
ParReceive(t) ==
    /\ par[t].pc = "recv"
    /\ \/ /\ CanReceive(host_vst_parameters_)
          /\ par' = [par EXCEPT ![t].pc = "ret",
                                ![t].response =
                                    Some(Received(host_vst_parameters_))]
          /\ host_vst_parameters_' = DropResp(host_vst_parameters_)
          /\ parameters_mutex_' = IF parameters_mutex_ = Some(t) THEN Free
                                  ELSE parameters_mutex_
          /\ UNCHANGED host
       \/ /\ ReceiveFails(host_vst_parameters_)
          /\ ParThrow(t)
          /\ UNCHANGED host_vst_parameters_
    /\ UNCHANGED <<fVars, host_vst_process_replacing_, host_vst_dispatch_,
                   vst_host_callback_, midiVars, resizeVars, process_buffers_,
                   shm, lifeVars, aud, disp, cb>>
    /\ UNCHANGED extVars

\* return *response.value  /  assert(!response.value)
ParReturn(t) ==
    /\ par[t].pc = "ret"
    /\ host' = [host EXCEPT !.par_result[t] =
                   [how |-> "returned",
                    value |-> par[t].response[1].value,
                    answers |-> par[t].response[1].answers]]
    /\ par' = [par EXCEPT ![t] = ParIdle]
    /\ UNCHANGED <<fVars, sockVars, parameters_mutex_, midiVars, resizeVars,
                   process_buffers_, shm, lifeVars, aud, disp, cb>>
    /\ UNCHANGED extVars

\* F's parameter handler: one request is read, the plugin's getParameter or
\* setParameter is called, one response is written.
FParameters ==
    /\ f_alive
    /\ host_vst_parameters_.req # <<>>
    /\ LET r == Head(host_vst_parameters_.req) IN
         /\ f_params' = IF r.value = Nothing THEN f_params ELSE r.value[1]
         /\ host_vst_parameters_' =
              [req |-> Tail(host_vst_parameters_.req),
               resp |-> Append(host_vst_parameters_.resp,
                               [value |-> IF r.value = Nothing
                                            THEN Some(f_params) ELSE Nothing,
                                answers |-> r])]
    /\ UNCHANGED <<f_alive, f_block_size, f_sent, f_ghost,
                   host_vst_process_replacing_, host_vst_dispatch_,
                   vst_host_callback_, parVars, midiVars, resizeVars,
                   process_buffers_, shm, lifeVars, aud, disp, cb, host>>
    /\ UNCHANGED extVars

\* F's process is killed (or the plugin crashes it).
KillF ==
    /\ f_alive
    /\ bridge = "live"
    /\ f_alive' = FALSE
    /\ UNCHANGED <<f_params, f_block_size, f_sent, f_ghost, sockVars, parVars,
                   midiVars, resizeVars, process_buffers_, shm, lifeVars, aud,
                   disp, cb, host>>
    /\ UNCHANGED extVars


\* ------------------------------------------------- the audio shared buffer
\* AudioShmBuffer: a flat array of per-channel sample runs, the input channels
\* first, each run block_size samples long.  Offsets count samples from 0.
ShmSize(cfg) == (plugin_.numInputs + plugin_.numOutputs) * cfg.block_size
input_channel_ptr(cfg, channel) == channel * cfg.block_size
output_channel_ptr(cfg, channel) ==
    (plugin_.numInputs + channel) * cfg.block_size
FreshShm(cfg) == [k \in 1..ShmSize(cfg) |-> 0]

\* The samples a host passes in block blk: every block and channel has its
\* own sample value.
HostSample(blk, channel) == blk + MaxBlocks * channel
HostInputs(blk, frames) ==
    [c \in 1..plugin_.numInputs |-> [i \in 1..frames |-> HostSample(blk, c - 1)]]
\* What the host's output buffers hold when it calls in.
HostOutputsBefore(frames) ==
    [c \in 1..plugin_.numOutputs |-> [i \in 1..frames |-> 1]]

\* std::copy_n(inputs[channel], sample_frames, input_channel) for all channels
CopyInputs(sh, cfg, frames, inputs) ==
    [k \in DOMAIN sh |->
       LET hit == {p \in (0..(plugin_.numInputs - 1)) \X (1..frames) :
                     k = input_channel_ptr(cfg, p[1]) + p[2]}
       IN IF hit = {} THEN sh[k]
          ELSE LET p == CHOOSE q \in hit : \A r \in hit : q[1] >= r[1]
               IN inputs[p[1] + 1][p[2]]]

\* The sample at an offset of the mapping; past its end anything is read.
ShmAt(sh, k) == IF k \in DOMAIN sh THEN sh[k] ELSE 0

\* The output loop: std::copy_n for processReplacing and
\* processDoubleReplacing, the accumulating std::transform for process.
CopyOutputs(sh, cfg, frames, replacing, outputs) ==
    [c \in 1..plugin_.numOutputs |->
       [i \in 1..frames |->
          LET new_value == ShmAt(sh, output_channel_ptr(cfg, c - 1) + i)
          IN IF replacing THEN new_value ELSE new_value + outputs[c][i]]]

\* The plugin F loaded: every output sample is the negated input sample of
\* the same position (of the last input channel when there are fewer inputs).
PluginOutput(inputs, frames) ==
    [c \in 1..plugin_.numOutputs |->
       [i \in 1..frames |->
          0 - inputs[IF c <= plugin_.numInputs THEN c
                     ELSE plugin_.numInputs][i]]]

\* ------------------------------------------------------------- do_process
AudIdle == [pc |-> "idle", kind |-> "none", frames |-> 0, blk |-> 0,
            trace |-> <<>>, idx |-> 0, new_realtime_priority |-> Nothing]

\* get_realtime_priority(): the calling thread's priority if it runs under
\* SCHED_FIFO
get_realtime_priority(sched) ==
    IF sched.policy = "SCHED_FIFO" THEN Some(sched.priority) ELSE Nothing
audio_thread_priority_synchronization_interval == 10
\* do_process: the priority goes with the request when the last
\* synchronisation is more than the interval ago.  The mutant attaches it
\* to every request.
priority_synchronization_always(time, last, sched) ==
    [new_realtime_priority |-> get_realtime_priority(sched),
     last |-> IF time > last
                      + audio_thread_priority_synchronization_interval
                THEN time ELSE last]
priority_synchronization(time, last, sched) ==
    IF time > last + audio_thread_priority_synchronization_interval
      THEN [new_realtime_priority |-> get_realtime_priority(sched),
            last |-> time]
      ELSE [new_realtime_priority |-> Nothing, last |-> last]

\* The order of do_process's steps after the prefetch of the transport
\* information: inputs into the shared buffer, request, acknowledgement,
\* outputs out of the shared buffer, MIDI flush.
do_process_no_ack == <<"copy_in", "send", "copy_out", "flush">>
do_process_out_first == <<"copy_in", "send", "copy_out", "recv", "flush">>
do_process_send_first == <<"send", "copy_in", "recv", "copy_out", "flush">>
do_process_order == <<"copy_in", "send", "recv", "copy_out", "flush">>

StepAfter(trace) ==
    IF Len(trace) < Len(do_process_order)
      THEN do_process_order[Len(trace) + 1] ELSE "return"
AudAdvance(step) ==
    [aud EXCEPT !.trace = Append(@, step), !.pc = StepAfter(Append(aud.trace, step))]

\* process_proxy / process_replacing_proxy / process_double_replacing_proxy:
\* the host's audio thread calls in, only while it has the plugin resumed,
\* with at most the block size it announced.  do_process first asks the host
\* for the transport information and the process level.
AudCall ==
    /\ HostMayCall
    /\ aud.pc = "idle"
    /\ host.mains
    /\ disp.opcode \notin {"effMainsChanged", "effSetBlockSize"}
    /\ host.blocks < MaxBlocks
    /\ \E kind \in {"process", "processReplacing", "processDoubleReplacing"},
          frames \in 1..host.block_size :
         /\ aud' = [pc |-> StepAfter(<<>>), kind |-> kind, frames |-> frames,
                    blk |-> host.blocks + 1, trace |-> <<>>, idx |-> 0,
                    new_realtime_priority |->
                       priority_synchronization(
                          now, last_audio_thread_priority_synchronization_,
                          audio_thread_sched).new_realtime_priority]
         /\ host' = [host EXCEPT !.blocks = @ + 1,
                                 !.out = HostOutputsBefore(frames),
                                 !.aud_result = [how |-> "pending"]]
    /\ last_audio_thread_priority_synchronization_' =
          priority_synchronization(
             now, last_audio_thread_priority_synchronization_,
             audio_thread_sched).last
    /\ UNCHANGED <<fVars, sockVars, parVars, midiVars, resizeVars,
                   process_buffers_, shm, lifeVars, disp, cb>>
    /\ UNCHANGED <<chunkVars, ctorVars, vst3Vars, now, audio_thread_sched,
                   config_, cacheVars, miscVars>>

\* assert(process_buffers_) and the input loop
AudCopyIn ==
    /\ aud.pc = "copy_in"
    /\ process_buffers_ # Nothing
    /\ shm' = CopyInputs(shm, process_buffers_[1], aud.frames,
                         HostInputs(aud.blk, aud.frames))
    /\ aud' = AudAdvance("copy_in")
    /\ UNCHANGED <<fVars, sockVars, parVars, midiVars, resizeVars,
                   process_buffers_, lifeVars, disp, cb, host>>
    /\ UNCHANGED extVars

\* An exception leaves do_process, which catches nothing.
AudThrow ==
    /\ aud' = AudIdle
    /\ host' = [host EXCEPT !.aud_result = [how |-> "exception"]]

\* sockets_.host_vst_process_replacing_.send(request)
AudSend ==
    /\ aud.pc = "send"
    /\ IF CanSend
         THEN /\ host_vst_process_replacing_' =
                    SendReq(host_vst_process_replacing_,
                            [sample_frames |-> aud.frames,
                             double_precision |->
                                 aud.kind = "processDoubleReplacing",
                             new_realtime_priority |->
                                 aud.new_realtime_priority,
                             blk |-> aud.blk])
              /\ aud' = AudAdvance("send")
              /\ UNCHANGED host
         ELSE /\ AudThrow
              /\ UNCHANGED host_vst_process_replacing_
    /\ UNCHANGED <<fVars, host_vst_parameters_, host_vst_dispatch_,
                   vst_host_callback_, parVars, midiVars, resizeVars,
                   process_buffers_, shm, lifeVars, disp, cb>>
    /\ UNCHANGED extVars

\* sockets_.host_vst_process_replacing_.receive_single<Ack>()
AudReceive ==
    /\ aud.pc = "recv"
    /\ \/ /\ CanReceive(host_vst_process_replacing_)
          /\ host_vst_process_replacing_' =
                DropResp(host_vst_process_replacing_)
          /\ aud' = AudAdvance("recv")
          /\ UNCHANGED host
       \/ /\ ReceiveFails(host_vst_process_replacing_)
          /\ AudThrow
          /\ UNCHANGED host_vst_process_replacing_
    /\ UNCHANGED <<fVars, host_vst_parameters_, host_vst_dispatch_,
                   vst_host_callback_, parVars, midiVars, resizeVars,
                   process_buffers_, shm, lifeVars, disp, cb>>
    /\ UNCHANGED extVars

\* the output loop
AudCopyOut ==
    /\ aud.pc = "copy_out"
    /\ process_buffers_ # Nothing
    /\ host' = [host EXCEPT !.out =
                   CopyOutputs(shm, process_buffers_[1], aud.frames,
                               aud.kind # "process", host.out)]
    /\ aud' = AudAdvance("copy_out")
    /\ UNCHANGED <<fVars, sockVars, parVars, midiVars, resizeVars,
                   process_buffers_, shm, lifeVars, disp, cb>>
    /\ UNCHANGED extVars

\* std::lock_guard lock(incoming_midi_events_mutex_)
AudFlushLock ==
    /\ aud.pc = "flush"
    /\ incoming_midi_events_mutex_ = Free
    /\ incoming_midi_events_mutex_' = Some("audio")
    /\ aud' = [aud EXCEPT !.pc = "flushing", !.idx = 1]
    /\ UNCHANGED <<fVars, sockVars, parVars, incoming_midi_events_,
                   resizeVars, process_buffers_, shm, lifeVars, disp, cb,
                   host>>
    /\ UNCHANGED extVars

\* One round of the loop over incoming_midi_events_: the bundle is handed to
\* the host's audioMasterProcessEvents on this thread.
AudFlushOne ==
    /\ aud.pc = "flushing"
    /\ aud.idx <= Len(incoming_midi_events_)
    /\ host' = [host EXCEPT !.midi_calls =
                   Append(@, [id |-> incoming_midi_events_[aud.idx],
                              by |-> "audio", blk |-> aud.blk,
                              after_ack |-> \E k \in DOMAIN aud.trace :
                                               aud.trace[k] = "recv"])]
    /\ aud' = [aud EXCEPT !.idx = @ + 1]
    /\ UNCHANGED <<fVars, sockVars, parVars, midiVars, resizeVars,
                   process_buffers_, shm, lifeVars, disp, cb>>
    /\ UNCHANGED extVars

\* The loop has reached the end of the list.
AudFlushDone ==
    /\ aud.pc = "flushing"
    /\ aud.idx > Len(incoming_midi_events_)
    /\ aud' = [aud EXCEPT !.pc = "clear"]
    /\ UNCHANGED <<fVars, sockVars, parVars, midiVars, resizeVars,
                   process_buffers_, shm, lifeVars, disp, cb, host>>
    /\ UNCHANGED extVars

\* incoming_midi_events_.clear() and the end of the lock_guard's scope
AudClear ==
    /\ aud.pc = "clear"
    /\ incoming_midi_events_' = <<>>
    /\ incoming_midi_events_mutex_' = Free
    /\ aud' = AudAdvance("flush")
    /\ UNCHANGED <<fVars, sockVars, parVars, resizeVars, process_buffers_,
                   shm, lifeVars, disp, cb, host>>
    /\ UNCHANGED extVars

\* do_process returns to the host.
AudReturn ==
    /\ aud.pc = "return"
    /\ host' = [host EXCEPT !.aud_result =
                   [how |-> "returned", blk |-> aud.blk, kind |-> aud.kind,
                    frames |-> aud.frames, trace |-> aud.trace]]
    /\ aud' = AudIdle
    /\ UNCHANGED <<fVars, sockVars, parVars, midiVars, resizeVars,
                   process_buffers_, shm, lifeVars, disp, cb>>
    /\ UNCHANGED extVars

\* F's audio handler: one request is read, the plugin processes the inputs in
\* the shared buffer into its outputs there, the acknowledgement is written.
FProcess ==
    /\ f_alive
    /\ host_vst_process_replacing_.req # <<>>
    /\ process_buffers_ # Nothing
    /\ LET r == Head(host_vst_process_replacing_.req)
           cfg == process_buffers_[1]
           read == [c \in 1..plugin_.numInputs |->
                      [i \in 1..r.sample_frames |->
                         ShmAt(shm, input_channel_ptr(cfg, c - 1) + i)]]
           wrote == PluginOutput(read, r.sample_frames)
       IN /\ shm' = [k \in DOMAIN shm |->
                       LET hit == {p \in (1..plugin_.numOutputs)
                                           \X (1..r.sample_frames) :
                                     k = output_channel_ptr(cfg, p[1] - 1) + p[2]}
                       IN IF hit = {} THEN shm[k]
                          ELSE LET p == CHOOSE q \in hit : TRUE
                               IN wrote[p[1]][p[2]]]
          /\ f_ghost' = [blk |-> r.blk, read |-> read, wrote |-> wrote]
          /\ host_vst_process_replacing_' =
               [req |-> Tail(host_vst_process_replacing_.req),
                resp |-> Append(host_vst_process_replacing_.resp, "Ack")]
    /\ UNCHANGED <<f_alive, f_params, f_block_size, f_sent,
                   host_vst_parameters_, host_vst_dispatch_,
                   vst_host_callback_, parVars, midiVars, resizeVars,
                   process_buffers_, lifeVars, aud, disp, cb, host>>
    /\ UNCHANGED extVars

\* ---------------------------------------------------------------- dispatch
DispIdle == [pc |-> "idle", opcode |-> "none", value |-> 0, data |-> <<>>,
             return_value |-> 0, bridge_ |-> FALSE, sent |-> FALSE,
             caught |-> FALSE, taken |-> <<0, 0>>]

Opcodes == {"effClose", "effEditIdle", "effMainsChanged", "effSetBlockSize",
            "effOpen", "effGetChunk", "effSetChunk", "effCanDo",
            "effGetSpeakerArrangement"}
\* VstSpeakerArrangement, by its type: mono or stereo
SpeakerArrangements == {0, 1}
\* the strings a host asks effCanDo about
CanDoQueries == {"hasCockosViewAsConfig", "receiveVstEvents"}

\* DispatchDataConverter::read_data: the request's payload
read_data_always(opcode, value) ==
    CASE opcode = "effOpen" -> "WantsAEffectUpdate"
      [] opcode = "effGetSpeakerArrangement" -> "DynamicSpeakerArrangement"
      [] opcode = "effCanDo" -> "string"
      [] opcode = "effMainsChanged" -> "WantsAudioShmBufferConfig"
      [] opcode = "effGetChunk" -> "WantsChunkBuffer"
      [] opcode = "effSetChunk" -> "ChunkData"
      [] OTHER -> "nullptr"
read_data(opcode, value) ==
    CASE opcode = "effOpen" -> "WantsAEffectUpdate"
      [] opcode = "effGetSpeakerArrangement" -> "DynamicSpeakerArrangement"
      [] opcode = "effCanDo" -> "string"
      [] opcode = "effMainsChanged" /\ value = 1 ->
            "WantsAudioShmBufferConfig"
      [] opcode = "effGetChunk" -> "WantsChunkBuffer"
      [] opcode = "effSetChunk" -> "ChunkData"
      [] OTHER -> "nullptr"

\* read_data, effSetChunk: std::vector<uint8_t>(chunk_data, chunk_data + value)
\* on the bytes the host's data pointer addresses
read_data_chunk_whole(opcode, data, value) ==
    IF opcode = "effSetChunk" THEN data ELSE <<>>
read_data_chunk(opcode, data, value) ==
    IF opcode = "effSetChunk" THEN SubSeq(data, 1, value) ELSE <<>>

\* read_data, what the payload holds: the speaker arrangement the data
\* pointer addresses, or the string it points to (the default converter)
read_data_object(opcode, data) ==
    IF opcode \in {"effGetSpeakerArrangement", "effCanDo"}
      THEN Some(data[1]) ELSE Nothing
\* DispatchDataConverter::read_value: the speaker arrangement the value
\* pointer addresses
read_value(opcode, value, data) ==
    IF opcode = "effGetSpeakerArrangement" THEN Some(value) ELSE Nothing

\* DispatchDataConverter::write_data, effGetSpeakerArrangement: the
\* arrangement of response.payload is copied to the object the data
\* pointer addresses
write_data_speakers(opcode, response, data) ==
    IF opcode = "effGetSpeakerArrangement"
      THEN <<response.payload[1].speakers>> ELSE data
\* DispatchDataConverter::write_value, effGetSpeakerArrangement: the
\* arrangement of response.payload is copied to the object the value
\* pointer addresses
write_value(opcode, value, response) ==
    IF opcode = "effGetSpeakerArrangement"
      THEN response.payload[1].speakers ELSE value

\* DispatchDataConverter::write_data on process_buffers_: a response to
\* effMainsChanged that carries a configuration creates the buffer
\* (emplace) or resizes the existing one.
write_data_buffers_resize_only(opcode, payload, buffers) ==
    IF opcode = "effMainsChanged" /\ payload # Nothing /\ buffers # Nothing
      THEN Some([block_size |-> payload[1].block_size, via |-> "resize"])
      ELSE buffers
write_data_buffers(opcode, payload, buffers) ==
    IF opcode = "effMainsChanged" /\ payload # Nothing
      THEN IF buffers = Nothing
             THEN Some([block_size |-> payload[1].block_size,
                        via |-> "emplace"])
             ELSE Some([block_size |-> payload[1].block_size,
                        via |-> "resize"])
      ELSE buffers

\* update_aeffect: the fields the plugin describes itself with are copied,
\* the function pointers and the bridge slot are left alone.
AEffectData == {"magic", "numInputs", "numOutputs", "numParams"}
update_aeffect(plugin, updated_plugin) ==
    [f \in DOMAIN plugin |->
       IF f \in AEffectData THEN updated_plugin[f] ELSE plugin[f]]

\* DispatchDataConverter::write_data on plugin_: the response to effOpen
\* carries the plugin's AEffect, which update_aeffect copies into plugin_.
write_data_plugin_assign(opcode, payload, plugin) ==
    IF opcode = "effOpen" THEN payload[1].aeffect ELSE plugin
write_data_plugin(opcode, payload, plugin) ==
    IF opcode = "effOpen"
      THEN update_aeffect(plugin, payload[1].aeffect) ELSE plugin

\* DispatchDataConverter::write_data on chunk_data_: the response to
\* effGetChunk carries the chunk, which is assigned to the bridge's buffer;
\* the address of the buffer is written through the host's data pointer.
write_data_chunk_local(opcode, payload, chunk) ==
    IF opcode = "effGetChunk" THEN payload[1].buffer ELSE <<>>
write_data_chunk(opcode, payload, chunk) ==
    IF opcode = "effGetChunk" THEN payload[1].buffer ELSE chunk
write_data_out(opcode, out) ==
    IF opcode = "effGetChunk" THEN "chunk_data_" ELSE out

\* d.setBridge(this): only the effClose case arms the deleter.
setBridgeAlways(opcode) == TRUE
setBridge(opcode) == opcode = "effClose"

\* The values the host may pass with an opcode, and when the ABI lets it make
\* the call: effMainsChanged and effSetBlockSize only between audio calls,
\* effSetBlockSize only while suspended, effClose when no other call runs.
HostValues(opcode) ==
    CASE opcode = "effMainsChanged" -> {0, 1}
      [] opcode = "effSetBlockSize" -> 1..MaxFrames
      [] opcode = "effSetChunk" -> 0..MaxChunk
      [] opcode = "effGetSpeakerArrangement" -> SpeakerArrangements
      [] OTHER -> {0}
\* What the host's data pointer addresses: for effSetChunk a buffer of at
\* least value bytes, for effCanDo the query, for effGetSpeakerArrangement
\* the output arrangement (and the value pointer the input arrangement).
HostData(opcode, value) ==
    CASE opcode = "effSetChunk" -> {B \in ByteSeqs : Len(B) >= value}
      [] opcode = "effCanDo" -> {<<q>> : q \in CanDoQueries}
      [] opcode = "effGetSpeakerArrangement" ->
            {<<a>> : a \in SpeakerArrangements}
      [] OTHER -> {<<>>}
HostAllows(opcode) ==
    CASE opcode = "effMainsChanged" -> aud.pc = "idle"
      [] opcode = "effSetBlockSize" -> aud.pc = "idle" /\ ~host.mains
      [] opcode = "effClose" ->
            aud.pc = "idle" /\ \A t \in ParThreads : par[t].pc = "idle"
      [] OTHER -> TRUE

\* The switch of dispatch: effEditIdle is handled by the bridge, the
\* effCanDo query for libSwell support is answered with -1, everything else
\* goes on to send_event (effClose inside its own try block).
dispatch_switch_forward_idle(opcode, data) ==
    CASE opcode = "effCanDo" /\ data = <<"hasCockosViewAsConfig">> ->
            [pc |-> "ret", return_value |-> -1]
      [] OTHER -> [pc |-> "send", return_value |-> 0]
dispatch_switch_forward_cockos(opcode, data) ==
    CASE opcode = "effEditIdle" -> [pc |-> "ei_lock", return_value |-> 0]
      [] OTHER -> [pc |-> "send", return_value |-> 0]
dispatch_switch(opcode, data) ==
    CASE opcode = "effEditIdle" -> [pc |-> "ei_lock", return_value |-> 0]
      [] opcode = "effCanDo" /\ data = <<"hasCockosViewAsConfig">> ->
            [pc |-> "ret", return_value |-> -1]
      [] OTHER -> [pc |-> "send", return_value |-> 0]

\* The head of dispatch: while plugin_.magic is 0 the event is logged and
\* ignored with return value 0, before the switch is reached.
dispatch_entry_no_check(plugin, opcode, data) == dispatch_switch(opcode, data)
dispatch_entry(plugin, opcode, data) ==
    IF plugin.magic = 0
      THEN [pc |-> "ret", return_value |-> 0]
      ELSE dispatch_switch(opcode, data)

\* dispatch_proxy: the host's GUI thread calls in.  While plugin_.magic is 0
\* the event is ignored.  effEditIdle is handled here, everything else is
\* sent to F.
DispEnter(opcodes) ==
    /\ disp.pc = "idle"
    /\ \E opcode \in opcodes :
         /\ HostAllows(opcode)
         /\ \E value \in HostValues(opcode) : \E data \in HostData(opcode, value) :
              /\ disp' = [DispIdle EXCEPT
                            !.opcode = opcode, !.value = value,
                            !.data = data,
                            !.pc = dispatch_entry(plugin_, opcode, data).pc,
                            !.return_value =
                               dispatch_entry(plugin_, opcode, data)
                                  .return_value]
              /\ host' = [host EXCEPT
                            !.disp_result = [how |-> "pending"],
                            !.mains = IF opcode = "effMainsChanged"
                                        THEN FALSE ELSE @,
                            !.block_size = IF opcode = "effSetBlockSize"
                                             THEN value ELSE @]
    /\ UNCHANGED <<fVars, sockVars, parVars, midiVars, resizeVars,
                   process_buffers_, shm, lifeVars, aud, cb>>
    /\ UNCHANGED extVars

\* The host calls in after the constructor has returned the plugin to it.
DispCallOf(opcodes) == HostMayCall /\ DispEnter(opcodes)
\* The host calls in while the constructor still runs: the callback-receive
\* thread has handed &plugin_, with its patched dispatcher, to the host's
\* callback (the Ardour 5.X behaviour the check of plugin_.magic is for).
DispCallEarly ==
    /\ bridge = "constructing"
    /\ host.other_calls > 0
    /\ host.disp_result.how # "pending"
    /\ DispEnter(Opcodes)
DispCall == DispCallOf(Opcodes)
DispCallClose == DispCallOf({"effClose"})
DispCallAudio == DispCallOf({"effMainsChanged", "effSetBlockSize"})
DispCallGui == DispCallOf({"effClose", "effEditIdle", "effMainsChanged"})
DispCallOpen == DispCallOf({"effOpen"})
DispCallChunk == DispCallOf({"effGetChunk", "effSetChunk", "effClose"})
DispCallMains == DispCallOf({"effMainsChanged"})
DispCallQuery == DispCallOf({"effCanDo", "effGetSpeakerArrangement"})

\* std::system_error out of send_event: caught in the effClose case, which
\* goes on with return_value 0; not caught anywhere else.
DispThrow ==
    IF disp.opcode = "effClose"
      THEN /\ disp' = [disp EXCEPT !.pc = "ret", !.return_value = 0,
                                   !.caught = TRUE,
                                   !.bridge_ = setBridge(disp.opcode)]
           /\ UNCHANGED host
      ELSE /\ disp' = DispIdle
           /\ host' = [host EXCEPT !.disp_result = [how |-> "exception"]]

\* send_event: the event is written to the dispatch socket
DispSend ==
    /\ disp.pc = "send"
    /\ IF CanSend
         THEN /\ host_vst_dispatch_' =
                    SendReq(host_vst_dispatch_,
                            [opcode |-> disp.opcode, value |-> disp.value,
                             payload |-> read_data(disp.opcode, disp.value),
                             buffer |-> read_data_chunk(disp.opcode,
                                                        disp.data,
                                                        disp.value),
                             object |-> read_data_object(disp.opcode,
                                                         disp.data),
                             value_payload |->
                                read_value(disp.opcode, disp.value,
                                           disp.data)])
              /\ disp' = [disp EXCEPT !.pc = "recv", !.sent = TRUE]
              /\ UNCHANGED host
         ELSE /\ DispThrow
              /\ UNCHANGED host_vst_dispatch_
    /\ UNCHANGED <<fVars, host_vst_parameters_, host_vst_process_replacing_,
                   vst_host_callback_, parVars, midiVars, resizeVars,
                   process_buffers_, shm, lifeVars, aud, cb>>
    /\ UNCHANGED extVars

\* send_event: the response is read, write_data stores what it carries and
\* the return value is taken from it
DispReceive ==
    /\ disp.pc = "recv"
    /\ \/ /\ CanReceive(host_vst_dispatch_)
          /\ LET r == Received(host_vst_dispatch_)
                 buffers == write_data_buffers(disp.opcode, r.payload,
                                               process_buffers_)
             IN /\ process_buffers_' = buffers
                /\ shm' = IF buffers # process_buffers_
                            THEN FreshShm(buffers[1]) ELSE shm
                /\ plugin_' = write_data_plugin(disp.opcode, r.payload,
                                                plugin_)
                /\ chunk_data_' = write_data_chunk(disp.opcode, r.payload,
                                                   chunk_data_)
                /\ host' = [host EXCEPT !.data_out =
                                          write_data_out(disp.opcode, @)]
                /\ disp' = [disp EXCEPT !.pc = "ret",
                                        !.return_value = r.return_value,
                                        !.bridge_ = setBridge(disp.opcode),
                                        !.data = write_data_speakers(
                                                    disp.opcode, r, @),
                                        !.value = write_value(disp.opcode,
                                                              @, r)]
          /\ host_vst_dispatch_' = DropResp(host_vst_dispatch_)
       \/ /\ ReceiveFails(host_vst_dispatch_)
          /\ DispThrow
          /\ UNCHANGED <<host_vst_dispatch_, process_buffers_, shm, plugin_,
                         chunk_data_>>
    /\ UNCHANGED <<fVars, host_vst_parameters_, host_vst_process_replacing_,
                   vst_host_callback_, parVars, midiVars, resizeVars,
                   bridge, aud, cb, f_chunk>>
    /\ UNCHANGED <<ctorVars, vst3Vars, utilVars>>

\* effEditIdle: std::unique_lock lock(incoming_resize_mutex_)
EditIdleLock ==
    /\ disp.pc = "ei_lock"
    /\ incoming_resize_mutex_ = Free
    /\ incoming_resize_mutex_' = Some("gui")
    /\ disp' = [disp EXCEPT !.pc = "ei_check"]
    /\ UNCHANGED <<fVars, sockVars, parVars, midiVars, incoming_resize_,
                   process_buffers_, shm, lifeVars, aud, cb, host>>
    /\ UNCHANGED extVars

\* if (incoming_resize_) { bind width and height; reset(); unlock(); ... }
\* The mutex is released here on both paths.
EditIdleCheck ==
    /\ disp.pc = "ei_check"
    /\ incoming_resize_mutex_' = Free
    /\ IF incoming_resize_.set
         THEN /\ incoming_resize_' = [incoming_resize_ EXCEPT !.set = FALSE]
              /\ disp' = [disp EXCEPT !.pc = "ei_call",
                                      !.taken = incoming_resize_.storage]
         ELSE /\ disp' = [disp EXCEPT !.pc = "ret", !.return_value = 0]
              /\ UNCHANGED incoming_resize_
    /\ UNCHANGED <<fVars, sockVars, parVars, midiVars, process_buffers_, shm,
                   lifeVars, aud, cb, host>>
    /\ UNCHANGED extVars

\* host_callback_function_(&plugin_, audioMasterSizeWindow, width, height).
\* width and height are references into the optional that reset() has
\* emptied: the call passes the values read when the request was taken or
\* whatever the optional's storage holds by now.
EditIdleCall ==
    /\ disp.pc = "ei_call"
    /\ \E args \in {disp.taken, incoming_resize_.storage} :
         host' = [host EXCEPT !.size_calls =
                     Append(@, [args |-> args, by |-> "gui",
                                during |-> disp.opcode,
                                taken |-> disp.taken])]
    /\ disp' = [disp EXCEPT !.pc = "ret", !.return_value = 0]
    /\ UNCHANGED <<fVars, sockVars, parVars, midiVars, resizeVars,
                   process_buffers_, shm, lifeVars, aud, cb>>
    /\ UNCHANGED extVars

\* return: the return value is handed over, then ~ScopedBridgedDeleter runs
\* and deletes the bridge when setBridge armed it.
DispReturn ==
    /\ disp.pc = "ret"
    /\ IF disp.bridge_
         THEN /\ bridge' = "deleting"
              /\ disp' = [disp EXCEPT !.pc = "td_terminate"]
              /\ host' = [host EXCEPT
                            !.teardowns = @ + 1,
                            !.disp_result = [how |-> "returning",
                                             opcode |-> disp.opcode,
                                             value |-> disp.return_value]]
         ELSE /\ disp' = DispIdle
              /\ host' = [host EXCEPT
                            !.disp_result = [how |-> "returned",
                                             opcode |-> disp.opcode,
                                             value |-> disp.return_value],
                            !.mains = IF /\ disp.opcode = "effMainsChanged"
                                         /\ disp.value = 1
                                        THEN TRUE ELSE @]
              /\ UNCHANGED bridge
    /\ UNCHANGED <<fVars, sockVars, parVars, midiVars, resizeVars,
                   process_buffers_, shm, plugin_, aud, cb>>
    /\ UNCHANGED extVars

\* ------------------------------------------------------ ~Vst2PluginBridge
\* plugin_host_->terminate().  The destructor is noexcept and its try/catch
\* is commented out: when terminate() fails because the process has already
\* exited, std::system_error leaves a noexcept function and std::terminate
\* ends the host's process.
TdTerminate ==
    /\ disp.pc = "td_terminate"
    /\ \/ /\ f_alive' = FALSE
          /\ disp' = [disp EXCEPT !.pc = "td_stop"]
          /\ UNCHANGED bridge
       \/ /\ ~f_alive
          /\ bridge' = "aborted"
          /\ disp' = [disp EXCEPT !.pc = "aborted"]
          /\ UNCHANGED f_alive
    /\ UNCHANGED <<f_params, f_block_size, f_sent, f_ghost, sockVars, parVars,
                   midiVars, resizeVars, process_buffers_, shm, plugin_, aud,
                   cb, host>>
    /\ UNCHANGED extVars

\* io_context_.stop()
TdStop ==
    /\ disp.pc = "td_stop"
    /\ disp' = [disp EXCEPT !.pc = "td_join"]
    /\ UNCHANGED <<fVars, sockVars, parVars, midiVars, resizeVars,
                   process_buffers_, shm, lifeVars, aud, cb, host>>
    /\ UNCHANGED extVars

\* The members are destroyed: the std::jthread host_callback_handler_ is
\* joined, the shared buffer is unmapped.  Then dispatch is back in the host.
TdJoin ==
    /\ disp.pc = "td_join"
    /\ cb.pc = "exited"
    /\ bridge' = "destroyed"
    /\ process_buffers_' = Nothing
    /\ shm' = <<>>
    /\ chunk_data_' = <<>>
    /\ disp' = [disp EXCEPT !.pc = "closed"]
    /\ host' = [host EXCEPT !.disp_result.how = "returned"]
    /\ UNCHANGED <<fVars, sockVars, parVars, midiVars, resizeVars, plugin_,
                   aud, cb, f_chunk>>
    /\ UNCHANGED <<ctorVars, vst3Vars, utilVars>>

\* The AEffect F serialises: the plugin's description of itself; the
\* pointers in it are F's own.
FAEffect(numParams) ==
    [magic |-> 1, numInputs |-> NumInputs, numOutputs |-> NumOutputs,
     numParams |-> numParams, ptr3 |-> "foreign", dispatcher |-> "foreign",
     process |-> "foreign", setParameter |-> "foreign",
     getParameter |-> "foreign", processReplacing |-> "foreign",
     processDoubleReplacing |-> "foreign"]

\* What the plugin answers to a request marker.
FPayloads(wants) ==
    CASE wants = "WantsAudioShmBufferConfig" ->
            {Some([block_size |-> f_block_size])}
      [] wants = "WantsAEffectUpdate" ->
            {Some([aeffect |-> FAEffect(n)]) : n \in 0..MaxParams}
      [] wants = "WantsChunkBuffer" ->
            {Some([buffer |-> B]) : B \in ByteSeqs}
      [] wants = "DynamicSpeakerArrangement" ->
            {Some([speakers |-> a]) : a \in SpeakerArrangements}
      [] OTHER -> {Nothing}
\* The value payload of the answer: the plugin's input speaker arrangement
\* when the request carried one.
FValuePayloads(r) ==
    IF r.value_payload # Nothing
      THEN {Some(a) : a \in SpeakerArrangements} ELSE {Nothing}

\* F's dispatch handler: one event is read, the plugin's dispatcher is called
\* and the result is written.  A WantsAudioShmBufferConfig payload is
\* answered with the configuration of the shared buffer.
FDispatch ==
    /\ f_alive
    /\ host_vst_dispatch_.req # <<>>
    /\ LET r == Head(host_vst_dispatch_.req) IN
         /\ f_block_size' = IF r.opcode = "effSetBlockSize" THEN r.value
                            ELSE f_block_size
         /\ \E ret \in 0..1 : \E payload \in FPayloads(r.payload) :
            \E value_payload \in FValuePayloads(r) :
              /\ host_vst_dispatch_' =
                    [req |-> Tail(host_vst_dispatch_.req),
                     resp |-> Append(host_vst_dispatch_.resp,
                                     [return_value |-> ret,
                                      payload |-> payload,
                                      value_payload |-> value_payload])]
              /\ f_chunk' = CASE r.payload = "WantsChunkBuffer" ->
                                    payload[1].buffer
                                [] r.payload = "ChunkData" -> r.buffer
                                [] OTHER -> f_chunk
    /\ UNCHANGED <<f_alive, f_params, f_sent, f_ghost, host_vst_parameters_,
                   host_vst_process_replacing_, vst_host_callback_, parVars,
                   midiVars, resizeVars, process_buffers_, shm, lifeVars, aud,
                   disp, cb, host>>
    /\ UNCHANGED <<chunk_data_, ctorVars, vst3Vars, utilVars>>

\* ------------------------------------------------ the callback-receive thread
\* The switch of the receive_events handler: audioMasterProcessEvents and
\* audioMasterSizeWindow are stored and answered here, everything else that
\* is not answered locally goes to passthrough_event.
NameQueries == {"audioMasterGetProductString", "audioMasterGetVendorString"}
CallbackRouteResizeThrough(opcode) ==
    CASE opcode = "audioMasterProcessEvents" -> "store_midi"
      [] opcode \in NameQueries -> "name"
      [] OTHER -> "passthrough"
CallbackRoute(opcode) ==
    CASE opcode = "audioMasterProcessEvents" -> "store_midi"
      [] opcode = "audioMasterSizeWindow" -> "store_resize"
      [] opcode \in NameQueries -> "name"
      [] OTHER -> "passthrough"

\* The names reported with the hide_daw option.
product_name_override == "Get yabridge'd"
vendor_name_override == "yabridge"
\* case audioMasterGetProductString, case audioMasterGetVendorString: with
\* config_.hide_daw the handler returns the override; without it the case
\* ends and the event goes to passthrough_event.  The mutants never hide the
\* host, or report the vendor's name as the product.
hide_daw_never(opcode, config) == Nothing
hide_daw_vendor_only(opcode, config) ==
    IF config.hide_daw
      THEN Some([return_value |-> 1, payload |-> vendor_name_override,
                 value_payload |-> Nothing])
      ELSE Nothing
hide_daw(opcode, config) ==
    IF config.hide_daw
      THEN Some([return_value |-> 1,
                 payload |-> IF opcode = "audioMasterGetProductString"
                               THEN product_name_override
                               ELSE vendor_name_override,
                 value_payload |-> Nothing])
      ELSE Nothing
\* What the host's callback answers when it is asked for its names.
HostNameAnswers(opcode) ==
    {[return_value |-> 1,
      payload |-> IF opcode = "audioMasterGetProductString"
                    THEN "REAPER" ELSE "Cockos",
      value_payload |-> Nothing],
     [return_value |-> 0, payload |-> "", value_payload |-> Nothing]}

\* std::lock_guard lock(incoming_midi_events_mutex_) in the handler
MidiPushNoMutex == TRUE
MidiPushGuard == incoming_midi_events_mutex_ = Free

\* receive_events: the next event is read from the callback socket
CbReceive ==
    /\ cb.pc = "recv"
    /\ vst_host_callback_.req # <<>>
    /\ cb' = [pc |-> "handle", event |-> Head(vst_host_callback_.req)]
    /\ vst_host_callback_' = [vst_host_callback_ EXCEPT !.req = Tail(@)]
    /\ UNCHANGED <<fVars, host_vst_parameters_, host_vst_process_replacing_,
                   host_vst_dispatch_, parVars, midiVars, resizeVars,
                   process_buffers_, shm, lifeVars, aud, disp, host>>
    /\ UNCHANGED extVars

\* case audioMasterProcessEvents: lock, push_back, return 1
CbStoreMidi ==
    /\ cb.pc = "handle"
    /\ CallbackRoute(cb.event.opcode) = "store_midi"
    /\ MidiPushGuard
    /\ incoming_midi_events_' = Append(incoming_midi_events_, cb.event.id)
    /\ cb' = [pc |-> "recv"]
    /\ UNCHANGED <<fVars, sockVars, parVars, incoming_midi_events_mutex_,
                   resizeVars, process_buffers_, shm, lifeVars, aud, disp,
                   host>>
    /\ UNCHANGED extVars

\* case audioMasterSizeWindow: lock, incoming_resize_ = pair(index, value),
\* return 1
CbStoreResize ==
    /\ cb.pc = "handle"
    /\ CallbackRoute(cb.event.opcode) = "store_resize"
    /\ incoming_resize_mutex_ = Free
    /\ incoming_resize_' = [set |-> TRUE,
                            storage |-> <<cb.event.index, cb.event.value>>]
    /\ cb' = [pc |-> "recv"]
    /\ UNCHANGED <<fVars, sockVars, parVars, midiVars,
                   incoming_resize_mutex_, process_buffers_, shm, lifeVars,
                   aud, disp, host>>
    /\ UNCHANGED extVars

\* return passthrough_event(&plugin_, host_callback_function_, event): the
\* host's callback is called on this thread
CbPassthrough ==
    /\ cb.pc = "handle"
    /\ CallbackRoute(cb.event.opcode) = "passthrough"
    /\ host' = [host EXCEPT
                  !.midi_calls =
                     IF cb.event.opcode = "audioMasterProcessEvents"
                       THEN Append(@, [id |-> cb.event.id,
                                       by |-> "host-callbacks", blk |-> 0,
                                       after_ack |-> FALSE])
                       ELSE @,
                  !.size_calls =
                     IF cb.event.opcode = "audioMasterSizeWindow"
                       THEN Append(@, [args |-> <<cb.event.index,
                                                  cb.event.value>>,
                                       by |-> "host-callbacks",
                                       during |-> disp.opcode,
                                       taken |-> <<cb.event.index,
                                                   cb.event.value>>])
                       ELSE @,
                  !.other_calls =
                     IF cb.event.opcode \notin {"audioMasterProcessEvents",
                                                "audioMasterSizeWindow"}
                       THEN @ + 1 ELSE @]
    /\ cb' = [pc |-> "recv"]
    /\ UNCHANGED <<fVars, sockVars, parVars, midiVars, resizeVars,
                   process_buffers_, shm, lifeVars, aud, disp>>
    /\ UNCHANGED extVars

\* The name queries: answered here with hide_daw, by the host's callback
\* through passthrough_event without; the result is written to the socket.
CbHostName ==
    /\ cb.pc = "handle"
    /\ CallbackRoute(cb.event.opcode) = "name"
    /\ LET local == hide_daw(cb.event.opcode, config_) IN
         IF local # Nothing
           THEN /\ vst_host_callback_' =
                      [vst_host_callback_ EXCEPT
                         !.resp = Append(@, local[1])]
                /\ UNCHANGED host
           ELSE \E answer \in HostNameAnswers(cb.event.opcode) :
                  /\ host' = [host EXCEPT !.other_calls = @ + 1]
                  /\ vst_host_callback_' =
                        [vst_host_callback_ EXCEPT
                           !.resp = Append(@, answer)]
    /\ cb' = [pc |-> "recv"]
    /\ UNCHANGED <<fVars, host_vst_parameters_, host_vst_process_replacing_,
                   host_vst_dispatch_, parVars, midiVars, resizeVars,
                   process_buffers_, shm, lifeVars, aud, disp>>
    /\ UNCHANGED extVars

\* receive_events ends when the socket is closed: F is gone and nothing is
\* left to read.
CbExit ==
    /\ cb.pc = "recv"
    /\ ~f_alive
    /\ vst_host_callback_.req = <<>>
    /\ cb' = [pc |-> "exited"]
    /\ UNCHANGED <<fVars, sockVars, parVars, midiVars, resizeVars,
                   process_buffers_, shm, lifeVars, aud, disp, host>>
    /\ UNCHANGED extVars

\* The plugin calls the host: F writes the event to the callback socket and
\* waits for the result, so one event is under way at a time.
FMayCall == f_alive /\ vst_host_callback_.req = <<>> /\ cb.pc = "recv"

\* audioMasterProcessEvents: the k-th MIDI bundle is bundle k
FMidi ==
    /\ FMayCall
    /\ f_sent.midi < MaxMidi
    /\ f_sent' = [f_sent EXCEPT !.midi = @ + 1]
    /\ vst_host_callback_' =
          SendReq(vst_host_callback_,
                  [opcode |-> "audioMasterProcessEvents",
                   id |-> f_sent.midi + 1])
    /\ UNCHANGED <<f_alive, f_params, f_block_size, f_ghost,
                   host_vst_parameters_, host_vst_process_replacing_,
                   host_vst_dispatch_, parVars, midiVars, resizeVars,
                   process_buffers_, shm, lifeVars, aud, disp, cb, host>>
    /\ UNCHANGED extVars

\* audioMasterSizeWindow: the k-th request asks for k by k + MaxResize
FResize ==
    /\ FMayCall
    /\ f_sent.resize < MaxResize
    /\ f_sent' = [f_sent EXCEPT !.resize = @ + 1]
    /\ vst_host_callback_' =
          SendReq(vst_host_callback_,
                  [opcode |-> "audioMasterSizeWindow",
                   index |-> f_sent.resize + 1,
                   value |-> f_sent.resize + 1 + MaxResize])
    /\ UNCHANGED <<f_alive, f_params, f_block_size, f_ghost,
                   host_vst_parameters_, host_vst_process_replacing_,
                   host_vst_dispatch_, parVars, midiVars, resizeVars,
                   process_buffers_, shm, lifeVars, aud, disp, cb, host>>
    /\ UNCHANGED extVars

\* any callback the handler's switch does not name
FOther ==
    /\ FMayCall
    /\ f_sent.other < MaxOther
    /\ f_sent' = [f_sent EXCEPT !.other = @ + 1]
    /\ vst_host_callback_' =
          SendReq(vst_host_callback_, [opcode |-> "audioMasterIdle"])
    /\ UNCHANGED <<f_alive, f_params, f_block_size, f_ghost,
                   host_vst_parameters_, host_vst_process_replacing_,
                   host_vst_dispatch_, parVars, midiVars, resizeVars,
                   process_buffers_, shm, lifeVars, aud, disp, cb, host>>
    /\ UNCHANGED extVars

\* the plugin asks for the host's product or vendor name
FAskName ==
    /\ FMayCall
    /\ vst_host_callback_.resp = <<>>
    /\ f_sent.other < MaxOther
    /\ f_sent' = [f_sent EXCEPT !.other = @ + 1]
    /\ \E opcode \in NameQueries :
         vst_host_callback_' =
            SendReq(vst_host_callback_, [opcode |-> opcode])
    /\ UNCHANGED <<f_alive, f_params, f_block_size, f_ghost,
                   host_vst_parameters_, host_vst_process_replacing_,
                   host_vst_dispatch_, parVars, midiVars, resizeVars,
                   process_buffers_, shm, lifeVars, aud, disp, cb, host>>
    /\ UNCHANGED extVars

\* the plugin gets the answer
FNameAnswered ==
    /\ f_alive
    /\ vst_host_callback_.resp # <<>>
    /\ vst_host_callback_' = [vst_host_callback_ EXCEPT !.resp = Tail(@)]
    /\ UNCHANGED <<fVars, host_vst_parameters_, host_vst_process_replacing_,
                   host_vst_dispatch_, parVars, midiVars, resizeVars,
                   process_buffers_, shm, lifeVars, aud, disp, cb, host>>
    /\ UNCHANGED extVars

\* ============================================ the modern-ABI (VST3) bridge
\* Vst3PluginProxyImpl and, around it, the registry of Vst3PluginBridge, F's
\* objects and the host.  bridge.send_message is synchronous: the request is
\* written, F handles it, the response is read.
InstanceIds == 1..MaxInstances
Vst3Threads == 1..NumVst3Threads
HostObjects == 1..MaxHostObjects

ProxyNone == [state |-> "none", component_handler |-> Nothing,
              host_context |-> Nothing, connection_point_proxy |-> Nothing,
              last_created_plug_view |-> Nothing, plug_views |-> 0]
Vst3Idle == [pc |-> "idle", op |-> "none", id |-> 0, arg |-> Nothing,
             sent |-> <<>>, result |-> Nothing]

InitVst3 ==
    /\ plugin_proxies = {}
    /\ proxy = [i \in InstanceIds |-> ProxyNone]
    /\ f_objects = [live |-> {}, next |-> 1, connections |-> {},
                    mirrors |-> {}]
    /\ vst3_sock = [req |-> {}, resp |-> {}, cb |-> Nothing]
    /\ vst3_call = [t \in Vst3Threads |-> Vst3Idle]
    /\ vst3_log = [calls |-> 0,
                   registered |-> [i \in InstanceIds |-> 0],
                   unregistered |-> [i \in InstanceIds |-> 0],
                   destructs |-> [i \in InstanceIds |-> 0],
                   passed |-> [i \in InstanceIds |->
                                 [component_handler |-> Nothing,
                                  host_context |-> Nothing]],
                   warned |-> FALSE]

\* bridge.send_message(request): the request is written to the socket.
SentSock(sock, t, msg) ==
    [sock EXCEPT !.req = @ \cup {[from |-> t, msg |-> msg]}]
Vst3HasResponse(t) == \E r \in vst3_sock.resp : r.to = t
Vst3Response(t) == CHOOSE r \in vst3_sock.resp : r.to = t
Vst3DropResponse(sock, t) ==
    [sock EXCEPT !.resp = {r \in @ : r.to # t}]

\* The host calls a method of a proxy only while it holds a reference to it
\* and makes one call at a time on an object.
Vst3Busy(id) ==
    \E t \in Vst3Threads :
       /\ vst3_call[t].pc # "idle"
       /\ \/ vst3_call[t].id = id
          \/ /\ vst3_call[t].arg # Nothing
             /\ vst3_call[t].arg[1].kind = "proxy"
             /\ vst3_call[t].arg[1].id = id
HostMayCallProxy(t, id) ==
    /\ vst3_call[t].pc = "idle"
    /\ proxy[id].state = "live"
    /\ ~Vst3Busy(id)
    /\ vst3_log.calls < MaxVst3Calls

\* ---- creation.  The factory asks F to construct the object.
Vst3Create(t) ==
    /\ vst3_call[t].pc = "idle"
    /\ f_objects.next + Cardinality({r \in vst3_sock.req :
                                        r.msg.type = "Construct"})
          <= MaxInstances
    /\ vst3_log.calls < MaxVst3Calls
    /\ vst3_sock' = SentSock(vst3_sock, t, [type |-> "Construct"])
    /\ vst3_log' = [vst3_log EXCEPT !.calls = @ + 1, !.warned = FALSE]
    /\ vst3_call' = [vst3_call EXCEPT ![t] =
                       [Vst3Idle EXCEPT !.pc = "construct", !.op = "create",
                                        !.sent = <<[type |-> "Construct"]>>]]
    /\ UNCHANGED <<plugin_proxies, proxy, f_objects>>
    /\ UNCHANGED vst2Vars

\* bridge.register_plugin_proxy(*this): the registry's mutex is held for the
\* insertion
register_plugin_proxy(registry, log, id) ==
    [registry |-> registry \cup {id},
     log |-> [log EXCEPT !.registered[id] = @ + 1]]
\* bridge.unregister_plugin_proxy(*this)
unregister_plugin_proxy(registry, log, id) ==
    [registry |-> registry \ {id},
     log |-> [log EXCEPT !.unregistered[id] = @ + 1]]

\* Vst3PluginProxyImpl::Vst3PluginProxyImpl: with the ConstructArgs of F's
\* response the proxy is built and registers itself.
Vst3Construct(t) ==
    /\ vst3_call[t].pc = "construct"
    /\ Vst3HasResponse(t)
    /\ LET id == Vst3Response(t).instance_id
           reg == register_plugin_proxy(plugin_proxies, vst3_log, id)
       IN /\ proxy' = [proxy EXCEPT ![id] =
                          [ProxyNone EXCEPT !.state = "live"]]
          /\ plugin_proxies' = reg.registry
          /\ vst3_log' = reg.log
          /\ vst3_call' = [vst3_call EXCEPT ![t] =
                             [Vst3Idle EXCEPT !.result = Some(id)]]
    /\ vst3_sock' = Vst3DropResponse(vst3_sock, t)
    /\ UNCHANGED f_objects
    /\ UNCHANGED vst2Vars

\* ---- destruction.  ~Vst3PluginProxyImpl: send_message(Destruct), then
\* unregister_plugin_proxy.
destructor_unregister_first == <<"d_unregister", "d_send", "d_recv">>
destructor_no_unregister == <<"d_send", "d_recv">>
destructor_steps == <<"d_send", "d_recv", "d_unregister">>
DtorAfter(pc) ==
    LET k == CHOOSE i \in DOMAIN destructor_steps : destructor_steps[i] = pc
    IN IF k < Len(destructor_steps) THEN destructor_steps[k + 1]
       ELSE "d_done"

\* The host drops its last reference: the destructor starts.
Vst3Release(t) ==
    /\ \E id \in InstanceIds :
         /\ HostMayCallProxy(t, id)
         /\ proxy' = [proxy EXCEPT ![id].state = "destructing"]
         /\ vst3_call' = [vst3_call EXCEPT ![t] =
                            [Vst3Idle EXCEPT !.pc = destructor_steps[1],
                                             !.op = "destroy", !.id = id]]
    /\ vst3_log' = [vst3_log EXCEPT !.calls = @ + 1, !.warned = FALSE]
    /\ UNCHANGED <<plugin_proxies, f_objects, vst3_sock>>
    /\ UNCHANGED vst2Vars

Vst3DtorSend(t) ==
    /\ vst3_call[t].pc = "d_send"
    /\ LET msg == [type |-> "Destruct", instance_id |-> vst3_call[t].id]
       IN /\ vst3_sock' = SentSock(vst3_sock, t, msg)
          /\ vst3_log' = [vst3_log EXCEPT
                            !.destructs[vst3_call[t].id] = @ + 1]
          /\ vst3_call' = [vst3_call EXCEPT
                             ![t].pc = DtorAfter("d_send"),
                             ![t].sent = Append(@, msg)]
    /\ UNCHANGED <<plugin_proxies, proxy, f_objects>>
    /\ UNCHANGED vst2Vars

Vst3DtorReceive(t) ==
    /\ vst3_call[t].pc = "d_recv"
    /\ Vst3HasResponse(t)
    /\ vst3_sock' = Vst3DropResponse(vst3_sock, t)
    /\ vst3_call' = [vst3_call EXCEPT ![t].pc = DtorAfter("d_recv")]
    /\ UNCHANGED <<plugin_proxies, proxy, f_objects, vst3_log>>
    /\ UNCHANGED vst2Vars

Vst3DtorUnregister(t) ==
    /\ vst3_call[t].pc = "d_unregister"
    /\ LET reg == unregister_plugin_proxy(plugin_proxies, vst3_log,
                                          vst3_call[t].id)
       IN /\ plugin_proxies' = reg.registry
          /\ vst3_log' = reg.log
    /\ vst3_call' = [vst3_call EXCEPT ![t].pc = DtorAfter("d_unregister")]
    /\ UNCHANGED <<proxy, f_objects, vst3_sock>>
    /\ UNCHANGED vst2Vars

\* The destructor returns, the object is gone.
Vst3DtorDone(t) ==
    /\ vst3_call[t].pc = "d_done"
    /\ proxy' = [proxy EXCEPT ![vst3_call[t].id] =
                    [ProxyNone EXCEPT !.state = "destroyed"]]
    /\ vst3_call' = [vst3_call EXCEPT ![t] = Vst3Idle]
    /\ UNCHANGED <<plugin_proxies, f_objects, vst3_sock, vst3_log>>
    /\ UNCHANGED vst2Vars

\* ---- IConnectionPoint::connect / disconnect / notify
\* dynamic_cast<Vst3PluginProxy*>(other)
IsPluginProxyNever(other) == FALSE
IsPluginProxy(other) == other.kind = "proxy"
\* dynamic_cast<YaMessagePtr*>(message)
IsYaMessagePtrAlways(message) == TRUE
IsYaMessagePtr(message) == message.kind = "YaMessagePtr"

\* What the host may pass as the other connection point: one of our live
\* proxies or an object of its own.
HostConnectionPoints(id) ==
    {[kind |-> "proxy", id |-> b] :
        b \in {i \in InstanceIds \ {id} :
                 proxy[i].state = "live" /\ ~Vst3Busy(i)}}
    \cup {[kind |-> "host", obj |-> o] : o \in HostObjects}
HostMessages == {[kind |-> "YaMessagePtr"], [kind |-> "host"]}

\* Enter a call: the thread is inside the method with its argument.
Vst3Enter(t, op, id, arg, pc, msgs) ==
    [vst3_call EXCEPT ![t] = [Vst3Idle EXCEPT !.pc = pc, !.op = op,
                                              !.id = id, !.arg = Some(arg),
                                              !.sent = msgs]]

Vst3Connect(t) ==
    \E id \in InstanceIds : \E other \in HostConnectionPoints(id) :
       /\ HostMayCallProxy(t, id)
       /\ LET msg == IF IsPluginProxy(other)
                       THEN [type |-> "Connect", instance_id |-> id,
                             other |-> [instance_id |-> other.id]]
                       ELSE [type |-> "Connect", instance_id |-> id,
                             other |-> [construct_args |->
                                          [object |-> other,
                                           owner_instance_id |-> id]]]
          IN /\ proxy' = IF IsPluginProxy(other) THEN proxy
                         ELSE [proxy EXCEPT
                                 ![id].connection_point_proxy = Some(other)]
             /\ vst3_sock' = SentSock(vst3_sock, t, msg)
             /\ vst3_log' = [vst3_log EXCEPT !.calls = @ + 1,
                                              !.warned = FALSE]
             /\ vst3_call' = Vst3Enter(t, "connect", id, other, "recv",
                                       <<msg>>)
       /\ UNCHANGED <<plugin_proxies, f_objects>>
       /\ UNCHANGED vst2Vars

Vst3Disconnect(t) ==
    \E id \in InstanceIds : \E other \in HostConnectionPoints(id) :
       /\ HostMayCallProxy(t, id)
       /\ LET msg == IF IsPluginProxy(other)
                       THEN [type |-> "Disconnect", instance_id |-> id,
                             other_instance_id |-> Some(other.id)]
                       ELSE [type |-> "Disconnect", instance_id |-> id,
                             other_instance_id |-> Nothing]
          IN /\ vst3_sock' = SentSock(vst3_sock, t, msg)
             /\ vst3_log' = [vst3_log EXCEPT !.calls = @ + 1,
                                              !.warned = FALSE]
             /\ vst3_call' = Vst3Enter(t, "disconnect", id, other,
                                       IF IsPluginProxy(other)
                                         THEN "recv" ELSE "recv_reset",
                                       <<msg>>)
       /\ UNCHANGED <<plugin_proxies, proxy, f_objects>>
       /\ UNCHANGED vst2Vars

\* disconnect, host object: the response is read, then
\* connection_point_proxy.reset()
Vst3DisconnectReset(t) ==
    /\ vst3_call[t].pc = "recv_reset"
    /\ Vst3HasResponse(t)
    /\ proxy' = [proxy EXCEPT
                   ![vst3_call[t].id].connection_point_proxy = Nothing]
    /\ vst3_call' = [vst3_call EXCEPT
                       ![t] = [Vst3Idle EXCEPT
                                 !.result = Some(Vst3Response(t).result)]]
    /\ vst3_sock' = Vst3DropResponse(vst3_sock, t)
    /\ UNCHANGED <<plugin_proxies, f_objects, vst3_log>>
    /\ UNCHANGED vst2Vars

Vst3Notify(t) ==
    \E id \in InstanceIds : \E message \in HostMessages :
       /\ HostMayCallProxy(t, id)
       /\ IF IsYaMessagePtr(message)
            THEN LET msg == [type |-> "Notify", instance_id |-> id,
                             message_ptr |-> message]
                 IN /\ vst3_sock' = SentSock(vst3_sock, t, msg)
                    /\ vst3_log' = [vst3_log EXCEPT !.calls = @ + 1,
                                                     !.warned = FALSE]
                    /\ vst3_call' = Vst3Enter(t, "notify", id, message,
                                              "recv", <<msg>>)
            ELSE /\ vst3_log' = [vst3_log EXCEPT !.calls = @ + 1,
                                                 !.warned = TRUE]
                 /\ vst3_call' =
                      [Vst3Enter(t, "notify", id, message, "return", <<>>)
                         EXCEPT ![t].result = Some("kNotImplemented")]
                 /\ UNCHANGED vst3_sock
       /\ UNCHANGED <<plugin_proxies, proxy, f_objects>>
       /\ UNCHANGED vst2Vars

\* ---- IEditController::setComponentHandler / IPluginBase::initialize
\* The two statements of the non-null branch: the host's object is stored in
\* the proxy, then the message with the proxy's ConstructArgs is sent.
store_after_send == <<"send", "store">>
store_then_send == <<"store", "send">>
StoreField(op) ==
    IF op = "setComponentHandler" THEN "component_handler" ELSE "host_context"
StoreMessage(op, id, object) ==
    IF op = "setComponentHandler"
      THEN [type |-> "SetComponentHandler", instance_id |-> id,
            component_handler_proxy_args |->
               [object |-> object, owner_instance_id |-> id]]
      ELSE [type |-> "Initialize", instance_id |-> id,
            host_context_args |->
               [object |-> object, owner_instance_id |-> id]]

\* One statement of the branch, by the thread t
StoreStep(t, step, op, id, object) ==
    IF step = "store"
      THEN /\ proxy' = [proxy EXCEPT ![id][StoreField(op)] = Some(object)]
           /\ UNCHANGED vst3_sock
      ELSE /\ vst3_sock' = SentSock(vst3_sock, t, StoreMessage(op, id, object))
           /\ UNCHANGED proxy

\* if (handler) / if (context): a null pointer takes the else branch, which
\* logs a warning and returns kInvalidArgument.
store_branch_unchecked(object) == "store"
store_branch(object) == IF object # 0 THEN "store" ELSE "invalid"

Vst3StoreCall(t) ==
    \E id \in InstanceIds :
    \E op \in {"setComponentHandler", "initialize"} :
    \E object \in HostObjects \cup {0} :
       /\ HostMayCallProxy(t, id)
       /\ IF store_branch(object) = "store"
            THEN /\ StoreStep(t, store_then_send[1], op, id, object)
                 /\ vst3_log' =
                      [vst3_log EXCEPT
                         !.calls = @ + 1, !.warned = FALSE,
                         !.passed[id][StoreField(op)] = Some(object)]
                 /\ vst3_call' =
                      Vst3Enter(t, op, id,
                                [kind |-> IF object = 0 THEN "null"
                                          ELSE "host",
                                 obj |-> object],
                                "second",
                                IF store_then_send[1] = "send"
                                  THEN <<StoreMessage(op, id, object)>>
                                  ELSE <<>>)
            ELSE /\ vst3_log' = [vst3_log EXCEPT !.calls = @ + 1,
                                                 !.warned = TRUE]
                 /\ vst3_call' =
                      [Vst3Enter(t, op, id, [kind |-> "null", obj |-> 0],
                                 "return", <<>>)
                         EXCEPT ![t].result = Some("kInvalidArgument")]
                 /\ UNCHANGED <<proxy, vst3_sock>>
       /\ UNCHANGED <<plugin_proxies, f_objects>>
       /\ UNCHANGED vst2Vars

Vst3StoreSecond(t) ==
    /\ vst3_call[t].pc = "second"
    /\ LET c == vst3_call[t] IN
         /\ StoreStep(t, store_then_send[2], c.op, c.id, c.arg[1].obj)
         /\ vst3_call' =
              [vst3_call EXCEPT
                 ![t].pc = "recv",
                 ![t].sent = IF store_then_send[2] = "send"
                               THEN Append(@, StoreMessage(c.op, c.id,
                                                           c.arg[1].obj))
                               ELSE @]
    /\ UNCHANGED <<plugin_proxies, f_objects, vst3_log>>
    /\ UNCHANGED vst2Vars

\* send_message returns: the response is read and its result returned
Vst3Receive(t) ==
    /\ vst3_call[t].pc = "recv"
    /\ Vst3HasResponse(t)
    /\ vst3_call' = [vst3_call EXCEPT
                       ![t].pc = "return",
                       ![t].result = Some(Vst3Response(t).result)]
    /\ vst3_sock' = Vst3DropResponse(vst3_sock, t)
    /\ UNCHANGED <<plugin_proxies, proxy, f_objects, vst3_log>>
    /\ UNCHANGED vst2Vars

\* The method returns to the host.
Vst3Return(t) ==
    /\ vst3_call[t].pc = "return"
    /\ vst3_call' = [vst3_call EXCEPT ![t] = Vst3Idle]
    /\ UNCHANGED <<plugin_proxies, proxy, f_objects, vst3_sock, vst3_log>>
    /\ UNCHANGED vst2Vars

\* ---- F.  One request is handled: the object is created or destroyed, two
\* objects are connected directly, or a mirror proxy for the host's object
\* is created under the instance id of the plugin object.
FMirrorKind(msg) ==
    CASE msg.type = "Connect" -> "connection_point"
      [] msg.type = "SetComponentHandler" -> "component_handler"
      [] OTHER -> "host_context"
FMirrorArgs(msg) ==
    CASE msg.type = "Connect" -> msg.other.construct_args
      [] msg.type = "SetComponentHandler" -> msg.component_handler_proxy_args
      [] OTHER -> msg.host_context_args
FCreatesMirror(msg) ==
    \/ msg.type \in {"SetComponentHandler", "Initialize"}
    \/ msg.type = "Connect" /\ "construct_args" \in DOMAIN msg.other
FHandled(objs, msg) ==
    CASE msg.type = "Construct" ->
            [objs EXCEPT !.live = @ \cup {objs.next}, !.next = @ + 1]
      [] msg.type = "Destruct" ->
            [objs EXCEPT
               !.live = @ \ {msg.instance_id},
               !.connections = {c \in @ : msg.instance_id \notin
                                            {c[1], c[2]}},
               !.mirrors = {m \in @ : m.owner # msg.instance_id}]
      [] FCreatesMirror(msg) ->
            [objs EXCEPT
               !.mirrors = {m \in @ : ~(m.owner = msg.instance_id
                                        /\ m.kind = FMirrorKind(msg))}
                           \cup {[kind |-> FMirrorKind(msg),
                                  owner |-> msg.instance_id,
                                  object |-> FMirrorArgs(msg).object]}]
      [] msg.type = "Connect" ->
            [objs EXCEPT !.connections =
                            @ \cup {<<msg.instance_id,
                                      msg.other.instance_id>>}]
      [] msg.type = "Disconnect" ->
            [objs EXCEPT
               !.connections =
                  IF msg.other_instance_id # Nothing
                    THEN @ \ {<<msg.instance_id, msg.other_instance_id[1]>>}
                    ELSE @,
               !.mirrors =
                  IF msg.other_instance_id = Nothing
                    THEN {m \in @ : ~(m.owner = msg.instance_id
                                      /\ m.kind = "connection_point")}
                    ELSE @]
      [] OTHER -> objs

\* What F can answer: the new object's instance id; for createView the
\* arguments of a view proxy when the plugin made an editor view and nothing
\* when it did not; for the stream queries the plugin's result code and the
\* bytes it wrote; a result code otherwise.
StreamQueries == {"GetState", "GetProgramData", "GetUnitData"}
StringQueries == {"GetParamStringByValue", "GetProgramName", "GetProgramInfo",
                  "GetProgramPitchName"}
\* Steinberg::Vst::String128 is an array of 128 characters.
String128Size == 128
\* The strings the plugin may answer with, by their lengths: empty, short,
\* filling the host's array but for the terminator, and longer.
ResponseStrings ==
    {[i \in 1..n |-> "x"] :
       n \in {0, 1, String128Size - 1, String128Size, String128Size + 1}}
FVst3Responses(r) ==
    CASE r.msg.type = "Construct" ->
            {[to |-> r.from, instance_id |-> f_objects.next]}
      [] r.msg.type = "CreateView" ->
            {[to |-> r.from, plug_view_args |-> Nothing],
             [to |-> r.from,
              plug_view_args |->
                 Some([owner_instance_id |-> r.msg.instance_id])]}
      [] r.msg.type \in StreamQueries ->
            {[to |-> r.from, result |-> res, data |-> d] :
               res \in {"kResultOk", "kResultFalse"}, d \in ByteSeqs}
      [] r.msg.type \in StringQueries ->
            {[to |-> r.from, result |-> res, string |-> str] :
               res \in {"kResultOk", "kResultFalse"},
               str \in ResponseStrings}
      [] OTHER -> {[to |-> r.from, result |-> "kResultOk"]}
\* The plugin's editor view lives in F next to the plugin object.
FCreatedView(objs, msg, response) ==
    IF msg.type = "CreateView" /\ response.plug_view_args # Nothing
      THEN [objs EXCEPT
              !.mirrors = @ \cup {[kind |-> "last_created_plug_view",
                                   owner |-> msg.instance_id,
                                   object |-> [kind |-> "view"]]}]
      ELSE objs

FVst3Handle ==
    \E r \in vst3_sock.req : \E response \in FVst3Responses(r) :
       /\ f_objects' = FCreatedView(FHandled(f_objects, r.msg), r.msg,
                                    response)
       /\ vst3_sock' =
            [vst3_sock EXCEPT !.req = @ \ {r}, !.resp = @ \cup {response}]
       /\ UNCHANGED <<plugin_proxies, proxy, vst3_call, vst3_log>>
       /\ UNCHANGED vst2Vars

\* The plugin calls the host through a mirror proxy: the callback carries
\* the instance id of the plugin object the mirror belongs to.
FVst3Callback ==
    /\ vst3_sock.cb = Nothing
    /\ \E m \in f_objects.mirrors :
         /\ m.kind \in {"component_handler", "host_context"}
         /\ vst3_sock' = [vst3_sock EXCEPT
                            !.cb = Some([owner_instance_id |-> m.owner,
                                         kind |-> m.kind,
                                         called |-> Nothing])]
    /\ UNCHANGED <<plugin_proxies, proxy, f_objects, vst3_call, vst3_log>>
    /\ UNCHANGED vst2Vars

\* N's callback handler looks the proxy up in the registry by the instance
\* id and calls the host's object stored in it; the result goes back to F.
Vst3Callback ==
    /\ vst3_sock.cb # Nothing
    /\ vst3_sock.cb[1].called = Nothing
    /\ LET c == vst3_sock.cb[1] IN
         /\ c.owner_instance_id \in plugin_proxies
         /\ vst3_sock' =
              [vst3_sock EXCEPT
                 !.cb = Some([c EXCEPT !.called =
                                Some(proxy[c.owner_instance_id][c.kind])])]
    /\ UNCHANGED <<plugin_proxies, proxy, f_objects, vst3_call, vst3_log>>
    /\ UNCHANGED vst2Vars

\* F reads the result of its callback.
FVst3CallbackDone ==
    /\ vst3_sock.cb # Nothing
    /\ vst3_sock.cb[1].called # Nothing
    /\ vst3_sock' = [vst3_sock EXCEPT !.cb = Nothing]
    /\ UNCHANGED <<plugin_proxies, proxy, f_objects, vst3_call, vst3_log>>
    /\ UNCHANGED vst2Vars

\* ---- Vst3PluginProxyImpl::createView.  The request goes to F; the view
\* proxy is built from the arguments of the response, when it has any.
Vst3CreateView(t) ==
    \E id \in InstanceIds :
       /\ HostMayCallProxy(t, id)
       /\ LET msg == [type |-> "CreateView", instance_id |-> id,
                      name |-> "editor"]
          IN /\ vst3_sock' = SentSock(vst3_sock, t, msg)
             /\ vst3_log' = [vst3_log EXCEPT !.calls = @ + 1,
                                              !.warned = FALSE]
             /\ vst3_call' = Vst3Enter(t, "createView", id,
                                       [kind |-> "name"], "recv_view",
                                       <<msg>>)
       /\ UNCHANGED <<plugin_proxies, proxy, f_objects>>
       /\ UNCHANGED vst2Vars

\* new Vst3PlugViewProxyImpl(...) is an object no earlier call returned: the
\* n-th view proxy made for this plugin object.  The mutants do not record
\* the view, or hand the recorded one out again.
create_view_no_record(p, response) ==
    IF response.plug_view_args # Nothing
      THEN [proxy |-> [p EXCEPT !.plug_views = @ + 1],
            result |-> Some([owner |->
                               response.plug_view_args[1].owner_instance_id,
                             n |-> p.plug_views + 1])]
      ELSE [proxy |-> p, result |-> Nothing]
create_view_record_null(p, response) ==
    IF response.plug_view_args # Nothing
      THEN LET view == [owner |->
                          response.plug_view_args[1].owner_instance_id,
                        n |-> p.plug_views + 1]
           IN [proxy |-> [p EXCEPT !.plug_views = @ + 1,
                                   !.last_created_plug_view = Some(view)],
               result |-> Some(view)]
      ELSE [proxy |-> [p EXCEPT !.last_created_plug_view = Nothing],
            result |-> Nothing]
create_view(p, response) ==
    IF response.plug_view_args # Nothing
      THEN LET view == [owner |->
                          response.plug_view_args[1].owner_instance_id,
                        n |-> p.plug_views + 1]
           IN [proxy |-> [p EXCEPT !.plug_views = @ + 1,
                                   !.last_created_plug_view = Some(view)],
               result |-> Some(view)]
      ELSE [proxy |-> p, result |-> Nothing]

Vst3CreateViewReceive(t) ==
    /\ vst3_call[t].pc = "recv_view"
    /\ Vst3HasResponse(t)
    /\ LET id == vst3_call[t].id
           made == create_view(proxy[id], Vst3Response(t))
       IN /\ proxy' = [proxy EXCEPT ![id] = made.proxy]
          /\ vst3_call' = [vst3_call EXCEPT
                             ![t].pc = "return",
                             ![t].result = Some(made.result)]
    /\ vst3_sock' = Vst3DropResponse(vst3_sock, t)
    /\ UNCHANGED <<plugin_proxies, f_objects, vst3_log>>
    /\ UNCHANGED vst2Vars

\* The plugin asks the host to resize its editor: the callback carries the
\* instance id of the plugin object the view belongs to, and N calls the
\* view recorded in that proxy.
FResizeView ==
    /\ vst3_sock.cb = Nothing
    /\ \E m \in f_objects.mirrors :
         /\ m.kind = "last_created_plug_view"
         /\ vst3_sock' = [vst3_sock EXCEPT
                            !.cb = Some([owner_instance_id |-> m.owner,
                                         kind |-> m.kind,
                                         called |-> Nothing])]
    /\ UNCHANGED <<plugin_proxies, proxy, f_objects, vst3_call, vst3_log>>
    /\ UNCHANGED vst2Vars

\* ---- getState, getProgramData, getUnitData: the host passes a stream, F
\* answers with the bytes the plugin wrote and the plugin's result code.
StreamOps == {"getState", "getProgramData", "getUnitData"}
StreamRequest(op, id) ==
    CASE op = "getState" -> [type |-> "GetState", instance_id |-> id]
      [] op = "getProgramData" ->
            [type |-> "GetProgramData", instance_id |-> id]
      [] op = "getUnitData" -> [type |-> "GetUnitData", instance_id |-> id]

Vst3GetData(t) ==
    \E id \in InstanceIds : \E op \in StreamOps :
       /\ HostMayCallProxy(t, id)
       /\ LET msg == StreamRequest(op, id)
          IN /\ vst3_sock' = SentSock(vst3_sock, t, msg)
             /\ vst3_log' = [vst3_log EXCEPT !.calls = @ + 1,
                                              !.warned = FALSE]
             /\ vst3_call' = Vst3Enter(t, op, id,
                                       [kind |-> "stream", data |-> <<>>],
                                       "recv_data", <<msg>>)
       /\ UNCHANGED <<plugin_proxies, proxy, f_objects>>
       /\ UNCHANGED vst2Vars

\* assert(expression): the expression is evaluated unless the translation
\* unit is compiled with NDEBUG, and then the statement is empty.
AssertEvaluates == BOOLEAN
\* YaBStream::write_back(stream): the bytes are written to the host's stream
write_back(stream, data) == [stream EXCEPT !.data = @ \o data]
\* assert(response.data.write_back(data) == kResultOk); return result;
write_back_statement(stream, data, evaluated) ==
    IF evaluated THEN write_back(stream, data) ELSE stream

Vst3GetDataReceive(t) ==
    /\ vst3_call[t].pc = "recv_data"
    /\ Vst3HasResponse(t)
    /\ \E evaluated \in AssertEvaluates :
          vst3_call' =
             [vst3_call EXCEPT
                ![t].pc = "return",
                ![t].arg = Some(write_back_statement(
                                   vst3_call[t].arg[1],
                                   Vst3Response(t).data, evaluated)),
                ![t].result = Some(Vst3Response(t).result)]
    /\ vst3_sock' = Vst3DropResponse(vst3_sock, t)
    /\ UNCHANGED <<plugin_proxies, proxy, f_objects, vst3_log>>
    /\ UNCHANGED vst2Vars

\* ---- getParamStringByValue, getProgramName, getProgramInfo,
\* getProgramPitchName: F answers with a string, which is copied into the
\* host's String128 (an array of String128Size characters) and terminated.
StringOps == {"getParamStringByValue", "getProgramName", "getProgramInfo",
              "getProgramPitchName"}
StringRequest(op, id) ==
    CASE op = "getParamStringByValue" ->
            [type |-> "GetParamStringByValue", instance_id |-> id]
      [] op = "getProgramName" ->
            [type |-> "GetProgramName", instance_id |-> id]
      [] op = "getProgramInfo" ->
            [type |-> "GetProgramInfo", instance_id |-> id]
      [] op = "getProgramPitchName" ->
            [type |-> "GetProgramPitchName", instance_id |-> id]
\* The host's array before the call.
HostString128 ==
    [kind |-> "String128", chars |-> [i \in 0..(String128Size - 1) |-> "?"],
     outside |-> {}]

Vst3GetString(t) ==
    \E id \in InstanceIds : \E op \in StringOps :
       /\ HostMayCallProxy(t, id)
       /\ LET msg == StringRequest(op, id)
          IN /\ vst3_sock' = SentSock(vst3_sock, t, msg)
             /\ vst3_log' = [vst3_log EXCEPT !.calls = @ + 1,
                                              !.warned = FALSE]
             /\ vst3_call' = Vst3Enter(t, op, id, HostString128,
                                       "recv_string", <<msg>>)
       /\ UNCHANGED <<plugin_proxies, proxy, f_objects>>
       /\ UNCHANGED vst2Vars

\* std::copy(response.string.begin(), response.string.end(), string);
\* string[response.string.size()] = 0;
\* Element i of the array gets character i + 1 of the string, element size()
\* the terminator; outside: the indices written that are not in the array.
copy_and_terminate(string, response_string) ==
    [kind |-> string.kind,
     chars |-> [i \in DOMAIN string.chars |->
                  IF i < Len(response_string) THEN response_string[i + 1]
                  ELSE IF i = Len(response_string) THEN "NUL"
                  ELSE string.chars[i]],
     outside |-> string.outside \cup
                    {i \in 0..Len(response_string) :
                        i \notin DOMAIN string.chars}]

Vst3GetStringReceive(t) ==
    /\ vst3_call[t].pc = "recv_string"
    /\ Vst3HasResponse(t)
    /\ vst3_call' =
          [vst3_call EXCEPT
             ![t].pc = "return",
             ![t].arg = Some(copy_and_terminate(vst3_call[t].arg[1],
                                                Vst3Response(t).string)),
             ![t].result = Some(Vst3Response(t).result)]
    /\ vst3_sock' = Vst3DropResponse(vst3_sock, t)
    /\ UNCHANGED <<plugin_proxies, proxy, f_objects, vst3_log>>
    /\ UNCHANGED vst2Vars

NextString ==
    \/ \E t \in Vst3Threads : Vst3Create(t)
    \/ \E t \in Vst3Threads : Vst3Construct(t)
    \/ \E t \in Vst3Threads : Vst3GetString(t)
    \/ \E t \in Vst3Threads : Vst3GetStringReceive(t)
    \/ \E t \in Vst3Threads : Vst3Return(t)
    \/ FVst3Handle

NextView ==
    \/ \E t \in Vst3Threads : Vst3Create(t)
    \/ \E t \in Vst3Threads : Vst3Construct(t)
    \/ \E t \in Vst3Threads : Vst3CreateView(t)
    \/ \E t \in Vst3Threads : Vst3CreateViewReceive(t)
    \/ \E t \in Vst3Threads : Vst3GetData(t)
    \/ \E t \in Vst3Threads : Vst3GetDataReceive(t)
    \/ \E t \in Vst3Threads : Vst3Return(t)
    \/ FVst3Handle \/ FResizeView \/ Vst3Callback \/ FVst3CallbackDone

NextVst3 ==
    \/ \E t \in Vst3Threads : Vst3Create(t)
    \/ \E t \in Vst3Threads : Vst3Construct(t)
    \/ \E t \in Vst3Threads : Vst3Release(t)
    \/ \E t \in Vst3Threads : Vst3DtorSend(t)
    \/ \E t \in Vst3Threads : Vst3DtorReceive(t)
    \/ \E t \in Vst3Threads : Vst3DtorUnregister(t)
    \/ \E t \in Vst3Threads : Vst3DtorDone(t)
    \/ \E t \in Vst3Threads : Vst3Connect(t)
    \/ \E t \in Vst3Threads : Vst3Disconnect(t)
    \/ \E t \in Vst3Threads : Vst3DisconnectReset(t)
    \/ \E t \in Vst3Threads : Vst3Notify(t)
    \/ \E t \in Vst3Threads : Vst3StoreCall(t)
    \/ \E t \in Vst3Threads : Vst3StoreSecond(t)
    \/ \E t \in Vst3Threads : Vst3Receive(t)
    \/ \E t \in Vst3Threads : Vst3Return(t)
    \/ FVst3Handle \/ FVst3Callback \/ Vst3Callback \/ FVst3CallbackDone

\* ------------------------------------------------------------ construction
\* plugin_(): every field zero-initialised
ZeroAEffect ==
    [magic |-> 0, numInputs |-> 0, numOutputs |-> 0, numParams |-> 0,
     ptr3 |-> "null", dispatcher |-> "null", process |-> "null",
     setParameter |-> "null", getParameter |-> "null",
     processReplacing |-> "null", processDoubleReplacing |-> "null"]
\* plugin_.ptr3 = this; plugin_.dispatcher = dispatch_proxy; ...
PatchAEffect(plugin) ==
    [plugin EXCEPT !.ptr3 = "this", !.dispatcher = "dispatch_proxy",
                   !.process = "process_proxy",
                   !.setParameter = "set_parameter_proxy",
                   !.getParameter = "get_parameter_proxy",
                   !.processReplacing = "process_replacing_proxy",
                   !.processDoubleReplacing =
                       "process_double_replacing_proxy"]
ThunkedAEffect == PatchAEffect(ZeroAEffect)

\* Vst2PluginBridge::Vst2PluginBridge, the statements of the body in their
\* order: connect_sockets_guarded(); plugin_.ptr3 = this and the thunks;
\* host_callback_handler_ = std::jthread(...); receive_single() on the
\* control socket; send(config_); update_aeffect(plugin_, initialized_plugin)
constructor_thread_late ==
    <<"connect", "patch", "receive", "thread", "config", "update">>
constructor_steps ==
    <<"connect", "patch", "thread", "receive", "config", "update">>
CtorAfter(pc) ==
    LET k == CHOOSE i \in DOMAIN constructor_steps : constructor_steps[i] = pc
    IN IF k < Len(constructor_steps) THEN constructor_steps[k + 1]
       ELSE "done"
CtorStep(pc) ==
    [ctor EXCEPT !.pc = CtorAfter(pc), !.trace = Append(@, pc)]

\* connect_sockets_guarded(): returns when F has connected to every socket
CtorConnect ==
    /\ ctor.pc = "connect"
    /\ ctor' = [CtorStep("connect") EXCEPT !.connected = TRUE]
    /\ UNCHANGED <<fVars, sockVars, parVars, midiVars, resizeVars,
                   process_buffers_, shm, lifeVars, aud, disp, cb, host>>
    /\ UNCHANGED <<chunkVars, host_vst_control_, f_init, vst3Vars, utilVars>>

\* plugin_.ptr3 = this; plugin_.dispatcher = dispatch_proxy; ...
CtorPatch ==
    /\ ctor.pc = "patch"
    /\ plugin_' = PatchAEffect(plugin_)
    /\ ctor' = CtorStep("patch")
    /\ UNCHANGED <<fVars, sockVars, parVars, midiVars, resizeVars,
                   process_buffers_, shm, bridge, aud, disp, cb, host>>
    /\ UNCHANGED <<chunkVars, host_vst_control_, f_init, vst3Vars, utilVars>>

\* host_callback_handler_ = std::jthread(...): the thread enters
\* receive_events
CtorStartThread ==
    /\ ctor.pc = "thread"
    /\ cb' = [pc |-> "recv"]
    /\ ctor' = CtorStep("thread")
    /\ UNCHANGED <<fVars, sockVars, parVars, midiVars, resizeVars,
                   process_buffers_, shm, lifeVars, aud, disp, host>>
    /\ UNCHANGED <<chunkVars, host_vst_control_, f_init, vst3Vars, utilVars>>

\* sockets_.host_vst_control_.receive_single<Vst2EventResult>(): blocks
\* until F has written the plugin's AEffect
CtorReceive ==
    /\ ctor.pc = "receive"
    /\ host_vst_control_.to_n # <<>>
    /\ ctor' = [CtorStep("receive") EXCEPT
                  !.initialized_plugin =
                      Some(Head(host_vst_control_.to_n).payload)]
    /\ host_vst_control_' = [host_vst_control_ EXCEPT !.to_n = Tail(@)]
    /\ UNCHANGED <<fVars, sockVars, parVars, midiVars, resizeVars,
                   process_buffers_, shm, lifeVars, aud, disp, cb, host>>
    /\ UNCHANGED <<chunkVars, f_init, vst3Vars, utilVars>>

\* sockets_.host_vst_control_.send(config_)
CtorSendConfig ==
    /\ ctor.pc = "config"
    /\ host_vst_control_' = [host_vst_control_ EXCEPT
                               !.to_f = Append(@, "config_")]
    /\ ctor' = CtorStep("config")
    /\ UNCHANGED <<fVars, sockVars, parVars, midiVars, resizeVars,
                   process_buffers_, shm, lifeVars, aud, disp, cb, host>>
    /\ UNCHANGED <<chunkVars, f_init, vst3Vars, utilVars>>

\* update_aeffect(plugin_, initialized_plugin); the constructor returns and
\* the host has its AEffect
CtorUpdate ==
    /\ ctor.pc = "update"
    /\ plugin_' = update_aeffect(plugin_, ctor.initialized_plugin[1])
    /\ bridge' = "live"
    /\ ctor' = CtorStep("update")
    /\ UNCHANGED <<fVars, sockVars, parVars, midiVars, resizeVars,
                   process_buffers_, shm, aud, disp, cb, host>>
    /\ UNCHANGED <<chunkVars, host_vst_control_, f_init, vst3Vars, utilVars>>

\* F, once the sockets are connected: the plugin is loaded and initialised,
\* then its AEffect is written to the control socket.
FSendAEffect ==
    /\ f_alive
    /\ f_init = "loading"
    /\ ctor.connected
    /\ \E n \in 0..MaxParams :
         host_vst_control_' =
            [host_vst_control_ EXCEPT
               !.to_n = Append(@, [payload |-> FAEffect(n),
                                   value_payload |-> "version"])]
    /\ f_init' = "sent"
    /\ UNCHANGED <<fVars, sockVars, parVars, midiVars, resizeVars,
                   process_buffers_, shm, lifeVars, aud, disp, cb, host>>
    /\ UNCHANGED <<chunkVars, ctor, vst3Vars, utilVars>>

\* F reads the configuration and starts serving the sockets.
FReceiveConfig ==
    /\ f_alive
    /\ f_init = "sent"
    /\ host_vst_control_.to_f # <<>>
    /\ host_vst_control_' = [host_vst_control_ EXCEPT !.to_f = Tail(@)]
    /\ f_init' = "configured"
    /\ UNCHANGED <<fVars, sockVars, parVars, midiVars, resizeVars,
                   process_buffers_, shm, lifeVars, aud, disp, cb, host>>
    /\ UNCHANGED <<chunkVars, ctor, vst3Vars, utilVars>>

Constructor ==
    \/ CtorConnect \/ CtorPatch \/ CtorStartThread \/ CtorReceive
    \/ CtorSendConfig \/ CtorUpdate

\* ================================================ the utility classes
Guards == 1..MaxGuards
FlushScopes == 1..MaxScopes
FlushScopeNone ==
    [state |-> "none", old_ftz_mode_ |-> Nothing, scope |-> 0,
     entered |-> Nothing, restored |-> 0]
GuardNone == [state |-> "none", is_active_ |-> FALSE]

\* The clock, the configuration and the caches at start.
InitUtil ==
    /\ now = StartTime
    /\ last_audio_thread_priority_synchronization_ = 0
    /\ audio_thread_sched = [policy |-> "SCHED_OTHER", priority |-> 0]
    /\ scoped_value_cache = [value_ |-> Nothing]
    /\ guards = [g \in Guards |-> GuardNone]
    /\ timed_value_cache = [value_ |-> 0, valid_until_ |-> 0]
    /\ cache_call = [op |-> "none"]
    /\ ftz_mode = "FLUSH_ZERO_OFF"
    /\ flush_scopes = [s \in FlushScopes |-> FlushScopeNone]
    /\ fn_call = [op |-> "none"]

\* everything of the two bridges
bridgeVars == <<fVars, sockVars, parVars, audVars, midiVars, resizeVars,
                lifeVars, process_buffers_, disp, cb, host, chunkVars,
                ctorVars, vst3Vars>>

\* ---- ScopedValueCache<T> and its Guard
CacheValues == {1, 2}
\* get(): value_ ? &*value_ : nullptr
scoped_get(cache) == cache.value_
\* set(new_value): value_ = std::move(new_value); return Guard(value_);
scoped_set(cache, new_value) ==
    [cache |-> [cache EXCEPT !.value_ = Some(new_value)],
     result |-> "Guard"]
\* ~Guard(): if (is_active_) cached_value_.get().reset();
guard_destructor(cache, guard) ==
    IF guard.is_active_ THEN [cache EXCEPT !.value_ = Nothing] ELSE cache
\* the Guard object that is made next
NextGuard == CHOOSE g \in Guards :
                /\ guards[g].state = "none"
                /\ \A h \in Guards : guards[h].state = "none" => g <= h

\* auto guard = cache.set(v);
ScopedSet ==
    /\ \E g \in Guards : guards[g].state = "none"
    /\ \E v \in CacheValues :
         LET done == scoped_set(scoped_value_cache, v) IN
            /\ scoped_value_cache' = done.cache
            /\ guards' = IF done.result = "Guard"
                           THEN [guards EXCEPT ![NextGuard] =
                                   [state |-> "alive", is_active_ |-> TRUE]]
                           ELSE guards
            /\ cache_call' = [op |-> "set", result |-> done.result]
    /\ UNCHANGED <<bridgeVars, miscVars, prioVars, config_, timed_value_cache>>

\* Guard(Guard&& o): the new guard refers to the same value, o.is_active_
\* becomes false.
ScopedGuardMove ==
    /\ \E g \in Guards : guards[g].state = "none"
    /\ \E o \in Guards :
         /\ guards[o].state = "alive"
         /\ guards[o].is_active_
         /\ guards' = [guards EXCEPT
                         ![o].is_active_ = FALSE,
                         ![NextGuard] = [state |-> "alive",
                                         is_active_ |-> TRUE]]
         /\ cache_call' = [op |-> "move", result |-> "Guard",
                           from |-> o, to |-> NextGuard]
    /\ UNCHANGED <<bridgeVars, miscVars, prioVars, config_, scoped_value_cache,
                   timed_value_cache>>

\* operator=(Guard&& o): cached_value_ = std::move(o.cached_value_);
\* o.is_active_ = false; return *this;  Every guard refers to the one
\* value_ of the cache, and is_active_ of *this is not assigned.
guard_move_assign(this, o) ==
    [this |-> this, o |-> [o EXCEPT !.is_active_ = FALSE]]

\* g = std::move(o); for two guards in scope, o one that holds the duty
ScopedGuardMoveAssign ==
    /\ \E g \in Guards : \E o \in Guards \ {g} :
         /\ guards[g].state = "alive"
         /\ guards[o].state = "alive"
         /\ guards[o].is_active_
         /\ LET done == guard_move_assign(guards[g], guards[o]) IN
               guards' = [guards EXCEPT ![g] = done.this, ![o] = done.o]
         /\ cache_call' = [op |-> "move_assign", result |-> "Guard&",
                           from |-> o, to |-> g]
    /\ UNCHANGED <<bridgeVars, miscVars, prioVars, config_, scoped_value_cache,
                   timed_value_cache>>

\* a guard goes out of scope
ScopedGuardDestroy ==
    /\ \E g \in Guards :
         /\ guards[g].state = "alive"
         /\ scoped_value_cache' = guard_destructor(scoped_value_cache,
                                                   guards[g])
         /\ guards' = [guards EXCEPT ![g].state = "destroyed"]
    /\ cache_call' = [op |-> "destroy", result |-> "void"]
    /\ UNCHANGED <<bridgeVars, miscVars, prioVars, config_, timed_value_cache>>

ScopedGet ==
    /\ cache_call' = [op |-> "get",
                      result |-> scoped_get(scoped_value_cache)]
    /\ UNCHANGED <<bridgeVars, miscVars, prioVars, config_, scoped_value_cache, guards,
                   timed_value_cache>>

\* ---- TimedValueCache<T>
Lifetimes == 0..MaxLifetime
\* get(): now <= valid_until_ ? &value_ : nullptr.  The mutant lets the value
\* expire one second early.
timed_get_early(cache, time) ==
    IF time < cache.valid_until_ THEN Some(cache.value_) ELSE Nothing
timed_get(cache, time) ==
    IF time <= cache.valid_until_ THEN Some(cache.value_) ELSE Nothing
\* get_and_keep_alive(lifetime_seconds): the expiry moves only while the
\* value is alive.  The mutant moves it always.
get_and_keep_alive_revive(cache, time, lifetime_seconds) ==
    [cache |-> [cache EXCEPT !.valid_until_ = time + lifetime_seconds],
     result |-> Some(cache.value_)]
get_and_keep_alive(cache, time, lifetime_seconds) ==
    IF time <= cache.valid_until_
      THEN [cache |-> [cache EXCEPT
                         !.valid_until_ = time + lifetime_seconds],
            result |-> Some(cache.value_)]
      ELSE [cache |-> cache, result |-> Nothing]
\* set(value, lifetime_seconds)
timed_set(cache, time, value, lifetime_seconds) ==
    [value_ |-> value, valid_until_ |-> time + lifetime_seconds]

TimedSet ==
    /\ \E v \in CacheValues : \E l \in Lifetimes :
         /\ timed_value_cache' = timed_set(timed_value_cache, now, v, l)
         /\ cache_call' = [op |-> "timed_set", value |-> v, lifetime |-> l,
                           result |-> "void"]
    /\ UNCHANGED <<bridgeVars, miscVars, prioVars, config_, scoped_value_cache, guards>>

TimedGet ==
    /\ cache_call' = [op |-> "get",
                      result |-> timed_get(timed_value_cache, now)]
    /\ UNCHANGED <<bridgeVars, miscVars, prioVars, config_, scoped_value_cache, guards,
                   timed_value_cache>>

TimedGetAndKeepAlive ==
    /\ \E l \in Lifetimes :
         LET done == get_and_keep_alive(timed_value_cache, now, l) IN
            /\ timed_value_cache' = done.cache
            /\ cache_call' = [op |-> "get_and_keep_alive", lifetime |-> l,
                              result |-> done.result]
    /\ UNCHANGED <<bridgeVars, miscVars, prioVars, config_, scoped_value_cache, guards>>

\* ---- ScopedFlushToZero
\* The flag's two modes (_MM_FLUSH_ZERO_ON, _MM_FLUSH_ZERO_OFF).
FtzModes == {"FLUSH_ZERO_ON", "FLUSH_ZERO_OFF"}
\* ScopedFlushToZero(): the flag's mode is saved in old_ftz_mode_ and
\* flushing is switched on.
ftz_constructor(mode) ==
    [old_ftz_mode_ |-> Some(mode), mode |-> "FLUSH_ZERO_ON"]
\* ~ScopedFlushToZero(): the saved mode is put back, if this object holds one.
ftz_destructor_always_off(old, mode) == "FLUSH_ZERO_OFF"
ftz_destructor(old, mode) == IF old # Nothing THEN old[1] ELSE mode
\* ScopedFlushToZero(ScopedFlushToZero&& o) and operator=(ScopedFlushToZero&&):
\* the saved mode goes over to the receiving object and o holds none.
ftz_move_copies(o) == [to |-> o, from |-> o]
ftz_move(o) == [to |-> o, from |-> Nothing]
\* the object that is made next
NextFlushScope == CHOOSE s \in FlushScopes :
                     /\ flush_scopes[s].state = "none"
                     /\ \A r \in FlushScopes :
                           flush_scopes[r].state = "none" => s <= r

\* ScopedFlushToZero ftz_guard;  (scope: the construction this object's
\* saved mode comes from, entered: the flag when it was constructed,
\* restored: how often the mode saved by this construction was put back)
FlushEnter ==
    /\ \E s \in FlushScopes : flush_scopes[s].state = "none"
    /\ LET made == ftz_constructor(ftz_mode) IN
          /\ flush_scopes' = [flush_scopes EXCEPT ![NextFlushScope] =
                                [state |-> "alive",
                                 old_ftz_mode_ |-> made.old_ftz_mode_,
                                 scope |-> NextFlushScope,
                                 entered |-> Some(ftz_mode),
                                 restored |-> 0]]
          /\ ftz_mode' = made.mode
    /\ fn_call' = [op |-> "ScopedFlushToZero", scope |-> NextFlushScope]
    /\ UNCHANGED <<bridgeVars, prioVars, config_, cacheVars>>

\* ScopedFlushToZero moved(std::move(o));
FlushMoveConstruct ==
    /\ \E s \in FlushScopes : flush_scopes[s].state = "none"
    /\ \E o \in FlushScopes :
         /\ flush_scopes[o].state = "alive"
         /\ LET moved == ftz_move(flush_scopes[o].old_ftz_mode_) IN
               flush_scopes' = [flush_scopes EXCEPT
                                  ![o].old_ftz_mode_ = moved.from,
                                  ![NextFlushScope] =
                                     [state |-> "alive",
                                      old_ftz_mode_ |-> moved.to,
                                      scope |-> flush_scopes[o].scope,
                                      entered |-> Nothing,
                                      restored |-> 0]]
         /\ fn_call' = [op |-> "move", from |-> o, to |-> NextFlushScope]
    /\ UNCHANGED <<bridgeVars, prioVars, config_, cacheVars, ftz_mode>>

\* to = std::move(o);  for a receiving object that holds no saved mode
FlushMoveAssign ==
    /\ \E o, to \in FlushScopes :
         /\ o # to
         /\ flush_scopes[o].state = "alive"
         /\ flush_scopes[to].state = "alive"
         /\ flush_scopes[to].old_ftz_mode_ = Nothing
         /\ LET moved == ftz_move(flush_scopes[o].old_ftz_mode_) IN
               flush_scopes' = [flush_scopes EXCEPT
                                  ![o].old_ftz_mode_ = moved.from,
                                  ![to].old_ftz_mode_ = moved.to,
                                  ![to].scope = flush_scopes[o].scope]
         /\ fn_call' = [op |-> "move_assign", from |-> o, to |-> to]
    /\ UNCHANGED <<bridgeVars, prioVars, config_, cacheVars, ftz_mode>>

\* An object goes out of scope, by a return or by an exception passing
\* through.
FlushExit ==
    /\ \E s \in FlushScopes :
         /\ flush_scopes[s].state = "alive"
         /\ ftz_mode' = ftz_destructor(flush_scopes[s].old_ftz_mode_, ftz_mode)
         /\ LET gone == [flush_scopes EXCEPT ![s].state = "destroyed"] IN
               flush_scopes' =
                  IF flush_scopes[s].old_ftz_mode_ # Nothing
                    THEN [gone EXCEPT
                            ![flush_scopes[s].scope].restored = @ + 1]
                    ELSE gone
         /\ fn_call' = [op |-> "~ScopedFlushToZero", scope |-> s]
    /\ UNCHANGED <<bridgeVars, prioVars, config_, cacheVars>>

\* Other code of the thread sets the flag while no scope object is alive.
HostSetsFtz ==
    /\ \A s \in FlushScopes : flush_scopes[s].state # "alive"
    /\ \E mode \in FtzModes :
         /\ mode # ftz_mode
         /\ ftz_mode' = mode
    /\ fn_call' = [op |-> "set_flush_zero_mode"]
    /\ UNCHANGED <<bridgeVars, prioVars, config_, cacheVars, flush_scopes>>

\* ---- find_plugin_library, case PluginType::vst3
\* A path is the sequence of its components, a component a stem with an
\* extension; the file system is a set of entries [path, target], target
\* being what fs::canonical resolves the path to.
PathComponent(stem, ext) == [stem |-> stem, ext |-> ext]
parent_path(p) == IF p = <<>> THEN <<>> ELSE SubSeq(p, 1, Len(p) - 1)
filename(p) == IF p = <<>> THEN PathComponent("", "") ELSE p[Len(p)]
extension(p) == filename(p).ext
replace_extension(c, ext) == [c EXCEPT !.ext = ext]
fs_exists(files, p) == \E f \in files : f.path = p
fs_canonical(files, p) == (CHOOSE f \in files : f.path = p).target

\* The module is looked for under Contents/x86_64-win and Contents/x86-win
\* of the bundle three levels above this library; a bundle directory whose
\* extension is not .vst3 and a bundle without a module are runtime errors.
find_plugin_library_64bit_first(this_plugin_path, prefer_32bit_vst3, files) ==
    LET bundle_home == parent_path(parent_path(parent_path(this_plugin_path)))
        win_module_name ==
           replace_extension(filename(this_plugin_path), ".vst3")
        candidate_path_64bit ==
           bundle_home \o <<PathComponent("Contents", ""),
                            PathComponent("x86_64-win", ""), win_module_name>>
        candidate_path_32bit ==
           bundle_home \o <<PathComponent("Contents", ""),
                            PathComponent("x86-win", ""), win_module_name>>
    IN IF extension(bundle_home) # ".vst3"
         THEN [threw |-> TRUE, what |-> "is not inside of a VST3 bundle"]
         ELSE IF fs_exists(files, candidate_path_64bit)
                THEN [threw |-> FALSE,
                      path |-> fs_canonical(files, candidate_path_64bit)]
                ELSE IF fs_exists(files, candidate_path_32bit)
                       THEN [threw |-> FALSE,
                             path |-> fs_canonical(files,
                                                   candidate_path_32bit)]
                       ELSE [threw |-> TRUE,
                             what |-> "does not contain a Windows VST3 module"]
find_plugin_library(this_plugin_path, prefer_32bit_vst3, files) ==
    LET bundle_home == parent_path(parent_path(parent_path(this_plugin_path)))
        win_module_name ==
           replace_extension(filename(this_plugin_path), ".vst3")
        candidate_path_64bit ==
           bundle_home \o <<PathComponent("Contents", ""),
                            PathComponent("x86_64-win", ""), win_module_name>>
        candidate_path_32bit ==
           bundle_home \o <<PathComponent("Contents", ""),
                            PathComponent("x86-win", ""), win_module_name>>
    IN IF extension(bundle_home) # ".vst3"
         THEN [threw |-> TRUE, what |-> "is not inside of a VST3 bundle"]
         ELSE IF prefer_32bit_vst3 /\ fs_exists(files, candidate_path_32bit)
                THEN [threw |-> FALSE,
                      path |-> fs_canonical(files, candidate_path_32bit)]
                ELSE IF fs_exists(files, candidate_path_64bit)
                       THEN [threw |-> FALSE,
                             path |-> fs_canonical(files,
                                                   candidate_path_64bit)]
                       ELSE IF fs_exists(files, candidate_path_32bit)
                              THEN [threw |-> FALSE,
                                    path |-> fs_canonical(
                                                files, candidate_path_32bit)]
                              ELSE [threw |-> TRUE,
                                    what |-> "does not contain a Windows VST3 module"]

\* The paths this library may have been installed under, and the Windows
\* modules yabridgectl may have linked into the bundle Plugin.vst3.
InstallComponents ==
    {PathComponent("Plugin", ".vst3"), PathComponent("Plugin", ".vst"),
     PathComponent("Contents", ""), PathComponent("x86_64-linux", ""),
     PathComponent("Plugin", ".so")}
InstallPaths ==
    UNION {[1..n -> InstallComponents] : n \in 1..MaxDepth}
Module64 ==
    [path |-> <<PathComponent("Plugin", ".vst3"), PathComponent("Contents", ""),
                PathComponent("x86_64-win", ""),
                PathComponent("Plugin", ".vst3")>>,
     target |-> <<PathComponent("drive_c", ""),
                  PathComponent("Plugin", ".vst3")>>]
Module32 ==
    [path |-> <<PathComponent("Plugin", ".vst3"), PathComponent("Contents", ""),
                PathComponent("x86-win", ""),
                PathComponent("Plugin", ".vst3")>>,
     target |-> <<PathComponent("drive_c", ""),
                  PathComponent("Plugin32", ".vst3")>>]

\* The bridge's constructor looks for its Windows module, once.
FindPluginLibrary ==
    /\ fn_call.op = "none"
    /\ \E this_plugin_path \in InstallPaths :
       \E prefer_32bit_vst3 \in BOOLEAN :
       \E files \in SUBSET {Module64, Module32} :
          fn_call' = [op |-> "find_plugin_library",
                      this_plugin_path |-> this_plugin_path,
                      prefer_32bit_vst3 |-> prefer_32bit_vst3,
                      files |-> files,
                      result |-> find_plugin_library(
                                    this_plugin_path, prefer_32bit_vst3,
                                    files)]
    /\ UNCHANGED <<bridgeVars, prioVars, config_, cacheVars, ftz_mode,
                   flush_scopes>>

\* ---- equals_case_insensitive
\* Strings are sequences of characters; a std::string's buffer holds the
\* terminator after its last character.
NameChars == {"a", "A", "b"}
NameStrings == UNION {[1..n -> NameChars] : n \in 0..MaxNameLen}
tolower(char) == IF char = "A" THEN "a" ELSE char
\* *(b.begin() + (i - 1)): the character, or the terminator at b.end()
CharAt(b, i) == IF i <= Len(b) THEN b[i] ELSE "NUL"
\* std::equal(a.begin(), a.end(), b.begin(), pred), from a's i-th character
\* on: a's range alone ends the loop, b is read at the same offsets whatever
\* its length.  (No string here holds a terminator inside, so the loop stops
\* at b's terminator at the latest.)
RECURSIVE std_equal(_, _, _)
std_equal(a, b, i) ==
    IF i > Len(a) THEN TRUE
    ELSE IF tolower(a[i]) = tolower(CharAt(b, i))
           THEN std_equal(a, b, i + 1) ELSE FALSE
equals_case_insensitive(a, b) == std_equal(a, b, 1)
\* the offsets of b the call has read
RECURSIVE std_equal_reads(_, _, _)
std_equal_reads(a, b, i) ==
    IF i > Len(a) THEN {}
    ELSE {i} \cup (IF tolower(a[i]) = tolower(CharAt(b, i))
                     THEN std_equal_reads(a, b, i + 1) ELSE {})

\* normalize_plugin_path compares the bundle directory's name with the
\* module's name, once.
EqualsCaseInsensitive ==
    /\ fn_call.op = "none"
    /\ \E a \in NameStrings : \E b \in NameStrings :
          fn_call' = [op |-> "equals_case_insensitive", a |-> a, b |-> b,
                      result |-> equals_case_insensitive(a, b),
                      reads |-> std_equal_reads(a, b, 1)]
    /\ UNCHANGED <<bridgeVars, prioVars, config_, cacheVars, ftz_mode,
                   flush_scopes>>

\* a second passes
Tick ==
    /\ now < MaxTime
    /\ now' = now + 1
    /\ UNCHANGED <<bridgeVars, miscVars, last_audio_thread_priority_synchronization_,
                   audio_thread_sched, config_, cacheVars>>

\* Time passes between two audio blocks: do_process reads the clock once,
\* at its start.
TickBetweenBlocks ==
    /\ aud.pc = "idle"
    /\ disp.pc = "idle"
    /\ Tick

\* The host changes the scheduling of its audio thread between two blocks.
RealtimePriorities == {5, 10}
HostSetsSched ==
    /\ aud.pc = "idle"
    /\ \E sched \in {[policy |-> "SCHED_OTHER", priority |-> 0]}
                    \cup {[policy |-> "SCHED_FIFO", priority |-> p] :
                            p \in RealtimePriorities} :
         /\ sched # audio_thread_sched
         /\ audio_thread_sched' = sched
    /\ UNCHANGED <<bridgeVars, miscVars, now,
                   last_audio_thread_priority_synchronization_, config_,
                   cacheVars>>

\* The bridge as its constructor's body is entered: the members are
\* initialised, plugin_ is all zero, no thread runs yet.
InitCtor ==
    /\ f_alive = TRUE
    /\ f_params = 0
    /\ f_block_size = 1
    /\ f_sent = [midi |-> 0, resize |-> 0, other |-> 0]
    /\ f_ghost = [blk |-> 0, read |-> <<>>, wrote |-> <<>>]
    /\ host_vst_parameters_ = EmptySocket
    /\ host_vst_process_replacing_ = EmptySocket
    /\ host_vst_dispatch_ = EmptySocket
    /\ vst_host_callback_ = EmptySocket
    /\ parameters_mutex_ = Free
    /\ incoming_midi_events_ = <<>>
    /\ incoming_midi_events_mutex_ = Free
    /\ incoming_resize_ = [set |-> FALSE, storage |-> <<0, 0>>]
    /\ incoming_resize_mutex_ = Free
    /\ process_buffers_ = Nothing
    /\ shm = <<>>
    /\ bridge = "constructing"
    /\ plugin_ = ZeroAEffect
    /\ par = [t \in ParThreads |-> ParIdle]
    /\ aud = AudIdle
    /\ disp = DispIdle
    /\ cb = [pc |-> "none"]
    /\ host = [par_result |-> [t \in ParThreads |-> [how |-> "none"]],
               aud_result |-> [how |-> "none"], out |-> <<>>, blocks |-> 0,
               mains |-> FALSE, block_size |-> 1,
               disp_result |-> [how |-> "none"], teardowns |-> 0,
               midi_calls |-> <<>>, size_calls |-> <<>>, other_calls |-> 0,
               data_out |-> "nullptr"]
    /\ chunk_data_ = <<>>
    /\ f_chunk = <<>>
    /\ host_vst_control_ = [to_n |-> <<>>, to_f |-> <<>>]
    /\ ctor = [pc |-> constructor_steps[1], trace |-> <<>>,
               connected |-> FALSE, initialized_plugin |-> Nothing]
    /\ f_init = "loading"
    /\ InitVst3
    /\ InitUtil
    /\ config_ = [hide_daw |-> FALSE]

\* ------------------------------------------------------- the state machine
\* The bridge after its constructor has returned: the sockets are connected,
\* the callback-receive thread is receiving, plugin_ holds F's AEffect.
InitConstructed ==
    /\ f_alive = TRUE
    /\ f_params = 0
    /\ f_block_size = 1
    /\ f_sent = [midi |-> 0, resize |-> 0, other |-> 0]
    /\ f_ghost = [blk |-> 0, read |-> <<>>, wrote |-> <<>>]
    /\ host_vst_parameters_ = EmptySocket
    /\ host_vst_process_replacing_ = EmptySocket
    /\ host_vst_dispatch_ = EmptySocket
    /\ vst_host_callback_ = EmptySocket
    /\ parameters_mutex_ = Free
    /\ incoming_midi_events_ = <<>>
    /\ incoming_midi_events_mutex_ = Free
    /\ incoming_resize_ = [set |-> FALSE, storage |-> <<0, 0>>]
    /\ incoming_resize_mutex_ = Free
    /\ process_buffers_ = Nothing
    /\ shm = <<>>
    /\ bridge = "live"
    /\ plugin_ = update_aeffect(ThunkedAEffect, FAEffect(0))
    /\ par = [t \in ParThreads |-> ParIdle]
    /\ aud = AudIdle
    /\ disp = DispIdle
    /\ cb = [pc |-> "recv"]
    /\ host = [par_result |-> [t \in ParThreads |-> [how |-> "none"]],
               aud_result |-> [how |-> "none"], out |-> <<>>, blocks |-> 0,
               mains |-> FALSE, block_size |-> 1,
               disp_result |-> [how |-> "none"], teardowns |-> 0,
               midi_calls |-> <<>>, size_calls |-> <<>>, other_calls |-> 0,
               data_out |-> "nullptr"]
    /\ chunk_data_ = <<>>
    /\ f_chunk = <<>>
    /\ host_vst_control_ = [to_n |-> <<>>, to_f |-> <<>>]
    /\ ctor = [pc |-> "done", trace |-> constructor_steps,
               connected |-> TRUE, initialized_plugin |-> Some(FAEffect(0))]
    /\ f_init = "configured"
    /\ InitVst3

\* The constructed bridge, with the default configuration or with any.
Init ==
    /\ InitConstructed
    /\ InitUtil
    /\ config_ = [hide_daw |-> FALSE]
InitAnyConfig ==
    /\ InitConstructed
    /\ InitUtil
    /\ config_ \in [hide_daw : BOOLEAN]

Parameters ==
    \/ \E t \in ParThreads : ParCall(t)
    \/ \E t \in ParThreads : ParLock(t)
    \/ \E t \in ParThreads : ParSend(t)
    \/ \E t \in ParThreads : ParReceive(t)
    \/ \E t \in ParThreads : ParReturn(t)
    \/ FParameters

Audio ==
    \/ AudCall \/ AudCopyIn \/ AudSend \/ AudReceive \/ AudCopyOut
    \/ AudFlushLock \/ AudFlushOne \/ AudFlushDone \/ AudClear \/ AudReturn
    \/ FProcess

DispatchSteps == DispSend \/ DispReceive \/ DispReturn \/ FDispatch
EditIdle == EditIdleLock \/ EditIdleCheck \/ EditIdleCall
Teardown == TdTerminate \/ TdStop \/ TdJoin \/ CbExit

\* Every thread of the bridge, of F and of the host.
Next ==
    \/ Parameters \/ Audio
    \/ DispCall \/ DispatchSteps \/ EditIdle \/ Teardown
    \/ CbReceive \/ CbStoreMidi \/ CbStoreResize \/ CbPassthrough
    \/ FMidi \/ FResize \/ FOther
    \/ KillF
Spec == Init /\ [][Next]_vars

\* The parameter calls of the host's threads, F's death and the closing of
\* the plugin.
NextParameters ==
    \/ Parameters
    \/ DispCallClose \/ DispatchSteps \/ Teardown
    \/ KillF
SpecParameters == Init /\ [][NextParameters]_vars

\* The audio thread, the (re)configuration of the shared buffer by the GUI
\* thread and the plugin's MIDI output.
NextAudio ==
    \/ Audio
    \/ DispCallAudio \/ DispatchSteps
    \/ CbReceive \/ CbStoreMidi \/ FMidi
    \/ KillF
SpecAudio == Init /\ [][NextAudio]_vars

\* The GUI thread's dispatch calls, the plugin's resize requests and the
\* closing of the plugin.
NextDispatch ==
    \/ DispCallGui \/ DispatchSteps \/ EditIdle \/ Teardown
    \/ CbReceive \/ CbStoreResize \/ CbPassthrough \/ FResize \/ FOther
    \/ KillF
SpecDispatch == Init /\ [][NextDispatch]_vars

\* The plugin's state read and written as a chunk, with the parameter calls,
\* the plugin's callbacks and the closing of the plugin around it.
NextChunk ==
    \/ DispCallChunk \/ DispatchSteps \/ Teardown
    \/ CbReceive \/ CbPassthrough \/ FOther
    \/ KillF
SpecChunk == Init /\ [][NextChunk]_vars

\* The host's queries: what the plugin can do and its speaker arrangements.
NextQuery ==
    \/ DispCallQuery \/ DispatchSteps
    \/ KillF
SpecQuery == Init /\ [][NextQuery]_vars

\* The scoped cache used on its own: values are set, guards are moved and
\* go out of scope.
NextScopedCache ==
    ScopedSet \/ ScopedGuardMove \/ ScopedGuardDestroy \/ ScopedGet
SpecScopedCache == Init /\ [][NextScopedCache]_vars

\* The same with guards assigned to one another.
NextGuardMoves == NextScopedCache \/ ScopedGuardMoveAssign
SpecGuardMoves == Init /\ [][NextGuardMoves]_vars

\* The audio thread while the clock runs and the host changes the thread's
\* scheduling.
NextPriority ==
    \/ AudCall \/ AudCopyIn \/ AudSend \/ AudReceive \/ AudCopyOut
    \/ AudFlushLock \/ AudFlushDone \/ AudClear \/ AudReturn
    \/ FProcess
    \/ DispCallMains \/ DispatchSteps
    \/ HostSetsSched \/ TickBetweenBlocks
SpecPriority == Init /\ [][NextPriority]_vars

\* The plugin's callbacks with the hide_daw option on or off.
NextHideDaw ==
    \/ FAskName \/ FNameAnswered \/ FResize \/ FOther
    \/ CbReceive \/ CbHostName \/ CbStoreResize \/ CbPassthrough
    \/ KillF
SpecHideDaw == InitAnyConfig /\ [][NextHideDaw]_vars

\* The denormal-flush scope used on its own: scopes are entered, moved and
\* left, and other code sets the flag in between.
NextFlush ==
    FlushEnter \/ FlushMoveConstruct \/ FlushMoveAssign \/ FlushExit
    \/ HostSetsFtz
SpecFlush == Init /\ [][NextFlush]_vars

\* The search for the Windows module, for every install path and bundle
\* content.
NextFindLibrary == FindPluginLibrary
SpecFindLibrary == Init /\ [][NextFindLibrary]_vars

\* The comparison of two names, for every pair of short strings.
NextEquals == EqualsCaseInsensitive
SpecEquals == Init /\ [][NextEquals]_vars

\* The timed cache used on its own while the clock runs.
NextTimedCache == TimedSet \/ TimedGet \/ TimedGetAndKeepAlive \/ Tick
SpecTimedCache == Init /\ [][NextTimedCache]_vars

\* The construction of the bridge with F's start-up and the plugin's
\* callbacks, then the opening of the plugin.
NextOpen ==
    \/ Constructor \/ FSendAEffect \/ FReceiveConfig
    \/ CbReceive \/ CbPassthrough \/ FOther
    \/ DispCallOpen \/ DispatchSteps
SpecOpen == InitCtor /\ [][NextOpen]_vars

\* The construction of the bridge with a host that dispatches events as soon
\* as a callback has shown it the plugin.
NextEarly == NextOpen \/ DispCallEarly
SpecEarly == InitCtor /\ [][NextEarly]_vars

\* The modern-ABI proxies: the host's threads, F and the callback handler.
SpecVst3 == Init /\ [][NextVst3]_vars
SpecView == Init /\ [][NextView]_vars
SpecString == Init /\ [][NextString]_vars

\* ==================================================================== claims
Returned(r) == r.how = "returned"

\* C1: concurrent getParameter and setParameter calls never interleave on the
\* parameters socket: while one call is between its send and its receive no
\* other call is sending or receiving and nothing but that call's request or
\* its response is on the socket, and the response a call returns with is the
\* response to its own request.
C1_ParametersSerialised ==
    \A t \in ParThreads :
      /\ par[t].pc = "recv" =>
            /\ \A u \in ParThreads \ {t} : par[u].pc \notin {"send", "recv"}
            /\ Len(host_vst_parameters_.req)
                 + Len(host_vst_parameters_.resp) <= 1
            /\ \A k \in DOMAIN host_vst_parameters_.req :
                  host_vst_parameters_.req[k].from = t
            /\ \A k \in DOMAIN host_vst_parameters_.resp :
                  host_vst_parameters_.resp[k].answers.from = t
      /\ par[t].pc = "ret" =>
            par[t].response[1].answers =
               [index |-> par[t].index, value |-> par[t].value, from |-> t]
      /\ (par[t].pc = "ret" /\ par[t].value = Nothing) =>
            par[t].response[1].value # Nothing

\* Two calls overlap: one has its response while the other, which had to wait
\* for the mutex, has its request out.
C1_Witness ==
    \E t, u \in ParThreads :
      /\ t # u
      /\ par[t].pc = "ret" /\ par[t].response[1].answers.from = t
      /\ par[u].pc = "recv"

\* C9: after F was killed a parameter call ends with the ABI's failure result
\* (it returns to the host, no exception reaches the host), and the bridge can
\* be destroyed without the host's process being ended.
C9_KilledHostGivesFailureResult ==
    ~f_alive =>
      /\ \A t \in ParThreads : host.par_result[t].how # "exception"
      /\ bridge # "aborted"

\* --------------------------------------------------------- the audio path
InFlight ==
    Len(host_vst_process_replacing_.req) + Len(host_vst_process_replacing_.resp)
Count(seq, x) == Cardinality({k \in DOMAIN seq : seq[k] = x})
TheOrder == <<"copy_in", "send", "recv", "copy_out", "flush">>
IsPrefix(a, b) == Len(a) <= Len(b) /\ \A k \in DOMAIN a : a[k] = b[k]

\* C2: at most one audio block is in flight on the process socket: there is
\* never more than one request or acknowledgement on it, while F lives what is
\* on it belongs to the audio call that is waiting for its acknowledgement,
\* and an audio call that returns has sent exactly one request and consumed
\* exactly one acknowledgement.
C2_OneBlockInFlight ==
    /\ InFlight <= 1
    /\ (InFlight = 1 /\ f_alive) => aud.pc = "recv"
    /\ \A k \in DOMAIN host_vst_process_replacing_.req :
          f_alive => host_vst_process_replacing_.req[k].blk = aud.blk
    /\ aud.pc = "return" =>
          Count(aud.trace, "send") = 1 /\ Count(aud.trace, "recv") = 1
    /\ Returned(host.aud_result) =>
          /\ Count(host.aud_result.trace, "send") = 1
          /\ Count(host.aud_result.trace, "recv") = 1

\* The second audio call is waiting while F has written its acknowledgement.
C2_Witness ==
    /\ aud.blk = MaxBlocks /\ aud.pc = "recv"
    /\ host_vst_process_replacing_.resp = <<"Ack">>
    /\ f_ghost.blk = MaxBlocks

\* C3: what a processReplacing/processDoubleReplacing call has copied into
\* the host's output buffers is what F wrote into the shared buffer for that
\* very block, which is the plugin's output for that block's inputs.
C3_OutputsAreThisBlocks ==
    /\ (aud.pc # "idle" /\ aud.kind # "process"
           /\ Count(aud.trace, "copy_out") = 1) =>
          /\ f_ghost.blk = aud.blk
          /\ host.out = f_ghost.wrote
          /\ host.out = PluginOutput(HostInputs(aud.blk, aud.frames),
                                     aud.frames)
    /\ (aud.pc = "idle" /\ Returned(host.aud_result)
           /\ host.aud_result.kind # "process") =>
          /\ f_ghost.blk = host.aud_result.blk
          /\ host.out = f_ghost.wrote

\* The last block of the run, of the largest size, has come back through
\* processReplacing after an earlier block went through the same buffer.
C3_Witness ==
    /\ aud.pc = "idle" /\ Returned(host.aud_result)
    /\ host.aud_result.kind = "processReplacing"
    /\ host.aud_result.blk = MaxBlocks
    /\ host.aud_result.frames = MaxFrames
    /\ host.out = f_ghost.wrote

\* While a request is on the process socket of a living F nobody but F
\* writes the shared buffer.
OnlyFWritesWhileRequested ==
    (f_alive /\ host_vst_process_replacing_.req # <<>> /\ shm' # shm) =>
       host_vst_process_replacing_'.req = Tail(host_vst_process_replacing_.req)

\* C4: within one audio call the steps are taken in the order inputs in,
\* request, acknowledgement, outputs out; when F services the request it finds
\* the block's inputs in the buffer, and N does not write the buffer while its
\* request is waiting.
C4_StepsInOrder ==
    /\ [](/\ IsPrefix(aud.trace, TheOrder)
          /\ (aud.pc # "idle" /\ f_ghost.blk = aud.blk) =>
                f_ghost.read = HostInputs(aud.blk, aud.frames))
    /\ [][OnlyFWritesWhileRequested]_vars

\* The second call has taken all four steps and F saw its inputs.
C4_Witness ==
    /\ aud.blk = MaxBlocks
    /\ aud.trace = <<"copy_in", "send", "recv", "copy_out">>
    /\ f_ghost.blk = aud.blk
    /\ f_ghost.read = HostInputs(aud.blk, aud.frames)

\* The bundles the callback-receive thread has taken off the socket and
\* handled, in the order of their arrival.
MidiUnderWay ==
    \/ \E k \in DOMAIN vst_host_callback_.req :
          vst_host_callback_.req[k].opcode = "audioMasterProcessEvents"
    \/ cb.pc = "handle" /\ cb.event.opcode = "audioMasterProcessEvents"
MidiArrived ==
    [k \in 1..(IF MidiUnderWay THEN f_sent.midi - 1 ELSE f_sent.midi) |-> k]
MidiDelivered == [k \in DOMAIN host.midi_calls |-> host.midi_calls[k].id]
MidiPending ==
    IF aud.pc \in {"flushing", "clear"}
      THEN SubSeq(incoming_midi_events_, aud.idx, Len(incoming_midi_events_))
      ELSE incoming_midi_events_

\* C5: the bundles handed to the host followed by the bundles still pending
\* are exactly the bundles that arrived, in their order (none lost, none
\* twice); each was handed over by the audio thread after the call's
\* acknowledgement; and the list is empty when the flush ends.
C5_MidiDeliveredOnceInOrder ==
    /\ [](/\ MidiDelivered \o MidiPending = MidiArrived
          /\ \A k \in DOMAIN host.midi_calls :
                host.midi_calls[k].by = "audio" /\ host.midi_calls[k].after_ack)
    /\ [][(aud.pc = "clear" /\ aud'.pc # "clear") =>
             incoming_midi_events_' = <<>>]_vars
    /\ [][host.midi_calls' # host.midi_calls =>
             (aud.pc = "flushing" /\ Count(aud.trace, "recv") = 1)]_vars

\* A bundle was handed over in the first audio call, the next one arrived
\* too late for that flush and was handed over by the second call.
C5_Witness ==
    /\ Len(host.midi_calls) = MaxMidi
    /\ host.midi_calls[1].blk = 1
    /\ host.midi_calls[MaxMidi].blk > 1
    /\ MidiDelivered = MidiArrived

ResizeUnderWay ==
    \/ \E k \in DOMAIN vst_host_callback_.req :
          vst_host_callback_.req[k].opcode = "audioMasterSizeWindow"
    \/ cb.pc = "handle" /\ cb.event.opcode = "audioMasterSizeWindow"
ResizeHandled == IF ResizeUnderWay THEN f_sent.resize - 1 ELSE f_sent.resize
ResizeRequest(k) == <<k, k + MaxResize>>

\* C6: the host's audioMasterSizeWindow callback is only ever called by the
\* thread that dispatches effEditIdle, during that dispatch, for a request
\* taken out of the pending slot; the slot holds the newest handled request;
\* taking the request empties the slot; no request is taken twice; and an
\* effEditIdle that finds the slot empty makes no callback.
C6_ResizeOnlyOnEditIdle ==
    /\ [](/\ \A k \in DOMAIN host.size_calls :
                /\ host.size_calls[k].by = "gui"
                /\ host.size_calls[k].during = "effEditIdle"
                /\ \E r \in 1..ResizeHandled :
                      host.size_calls[k].taken = ResizeRequest(r)
                /\ \A j \in DOMAIN host.size_calls :
                      j < k => host.size_calls[j].taken[1]
                                 < host.size_calls[k].taken[1]
          /\ incoming_resize_.set =>
                incoming_resize_.storage = ResizeRequest(ResizeHandled)
          /\ Len(vst_host_callback_.resp) = 0)
    /\ [][host.size_calls' # host.size_calls =>
             (disp.opcode = "effEditIdle" /\ disp.pc = "ei_call")]_vars
    /\ [][(disp.pc = "ei_check" /\ disp' # disp) =>
             IF incoming_resize_.set
               THEN /\ ~incoming_resize_'.set
                    /\ disp'.pc = "ei_call"
                    /\ disp'.taken = incoming_resize_.storage
               ELSE /\ disp'.pc = "ret"
                    /\ host'.size_calls = host.size_calls]_vars

\* The first request was overwritten in the slot by the last one, which is
\* the only one the host was called with.
C6_Witness ==
    /\ Len(host.size_calls) = 1
    /\ host.size_calls[1].taken = ResizeRequest(MaxResize)
    /\ ~incoming_resize_.set
    /\ disp.pc = "idle"

\* After the teardown nothing of the bridge changes any more.
NothingAfterTeardown ==
    bridge = "destroyed" =>
       UNCHANGED <<bridge, plugin_, parVars, midiVars, resizeVars,
                   process_buffers_, shm, sockVars, aud, disp, cb>>

\* C7: the bridge is torn down at most once, only by a dispatch of effClose,
\* only after the Close request was sent (or the attempt to send it failed
\* and was caught) and the return value was captured; the host is given the
\* captured value; and once the teardown is done no thread of the bridge
\* runs and no state of the bridge changes.
C7_TeardownOnceAfterClose ==
    /\ [](/\ host.teardowns <= 1
          /\ (host.teardowns = 0) = (bridge = "live")
          /\ bridge # "live" =>
                /\ disp.opcode = "effClose"
                /\ disp.sent \/ disp.caught
                /\ disp.pc \in {"td_terminate", "td_stop", "td_join",
                                "closed", "aborted"}
                /\ host.disp_result.opcode = "effClose"
                /\ host.disp_result.value = disp.return_value
          /\ bridge = "destroyed" =>
                /\ cb.pc = "exited" /\ aud.pc = "idle"
                /\ \A t \in ParThreads : par[t].pc = "idle"
                /\ host.disp_result.how = "returned")
    /\ [][bridge' # "live" =>
             (disp'.return_value = disp.return_value
              /\ (bridge = "live" => disp.pc = "ret"))]_vars
    /\ [][NothingAfterTeardown]_vars

\* effClose came back from F with 1, the bridge is gone and the host has
\* the 1.
C7_Witness ==
    /\ bridge = "destroyed"
    /\ disp.sent /\ ~disp.caught
    /\ host.disp_result = [how |-> "returned", opcode |-> "effClose",
                           value |-> 1]
    /\ host.teardowns = 1

\* C8: when the send or the receive of effClose fails because the remote
\* end is gone, the error is swallowed, dispatch returns 0 and the teardown
\* runs to its end without an error reaching the host.
C8_CloseSwallowsRemoteGone ==
    (disp.opcode = "effClose" /\ disp.caught) =>
       /\ disp.return_value = 0
       /\ host.disp_result.how # "exception"
       /\ bridge # "aborted"

\* C11: dispatch(effMainsChanged) asks F for an audio-buffer configuration
\* exactly when value is 1.  When the response carries a configuration the
\* shared buffer is created if there was none and resized otherwise; when
\* value is not 1 or the response carries no configuration the buffer is
\* left as it was, and no other dispatch touches it.
C11_MainsChangedConfiguresBuffer ==
    /\ [](\A k \in DOMAIN host_vst_dispatch_.req :
            LET e == host_vst_dispatch_.req[k] IN
              e.opcode = "effMainsChanged" =>
                 (e.payload = "WantsAudioShmBufferConfig" <=> e.value = 1))
    /\ [][(disp.pc = "recv" /\ disp'.pc = "ret") =>
            LET response == Received(host_vst_dispatch_) IN
              IF disp.opcode = "effMainsChanged" /\ response.payload # Nothing
                THEN /\ disp.value = 1
                     /\ process_buffers_' # Nothing
                     /\ process_buffers_'[1].block_size =
                           response.payload[1].block_size
                     /\ process_buffers_'[1].via =
                           IF process_buffers_ = Nothing
                             THEN "emplace" ELSE "resize"
                ELSE process_buffers_' = process_buffers_]_vars
    /\ [][(disp.opcode = "effMainsChanged" /\ disp.value # 1
             /\ bridge' # "destroyed") =>
            process_buffers_' = process_buffers_]_vars

\* The buffer was created, then resized, and a disabling call has got its
\* response and left it alone.
C11_Witness ==
    /\ process_buffers_ # Nothing
    /\ process_buffers_[1].via = "resize"
    /\ disp.opcode = "effMainsChanged"
    /\ disp.value = 0
    /\ disp.pc = "ret"
    /\ disp.sent

C13_SetChunkCarriesValueBytes ==
    /\ \A k \in DOMAIN host_vst_dispatch_.req :
         LET e == host_vst_dispatch_.req[k] IN
           (e.opcode = "effSetChunk" /\ disp.pc = "recv") =>
              /\ disp.opcode = "effSetChunk"
              /\ e.payload = "ChunkData"
              /\ Len(e.buffer) = disp.value
              /\ \A i \in 1..disp.value : e.buffer[i] = disp.data[i]
    /\ (disp.opcode = "effSetChunk" /\ disp.pc = "ret" /\ disp.sent) =>
          /\ Len(f_chunk) = disp.value
          /\ \A i \in 1..disp.value : f_chunk[i] = disp.data[i]
          /\ (/\ host.data_out = "chunk_data_"
              /\ disp.data = chunk_data_
              /\ disp.value = Len(chunk_data_)) => f_chunk = chunk_data_

\* The chunk the host got from effGetChunk went back through effSetChunk
\* and F has decoded the same bytes.
C13_Witness ==
    /\ disp.opcode = "effSetChunk"
    /\ disp.pc = "ret"
    /\ disp.sent
    /\ host.data_out = "chunk_data_"
    /\ disp.data = chunk_data_
    /\ disp.value = MaxChunk
    /\ \E i \in 1..MaxChunk : chunk_data_[i] # 0
    /\ f_chunk = chunk_data_

\* The function pointers and the bridge slot of the host-visible AEffect
\* refer to this bridge.
RefersToThisBridge(plugin) ==
    /\ plugin.ptr3 = "this"
    /\ plugin.dispatcher = "dispatch_proxy"
    /\ plugin.process = "process_proxy"
    /\ plugin.setParameter = "set_parameter_proxy"
    /\ plugin.getParameter = "get_parameter_proxy"
    /\ plugin.processReplacing = "process_replacing_proxy"
    /\ plugin.processDoubleReplacing = "process_double_replacing_proxy"

\* C14: the request of effOpen is marked as wanting an AEffect update; when
\* the response is read, and so before dispatch returns, the struct it
\* carries is copied into the host-visible struct, which is not touched
\* again before the return; the thunks and the bridge slot of the
\* host-visible struct refer to this bridge at all times.
C14_OpenUpdatesAEffect ==
    /\ [](\A k \in DOMAIN host_vst_dispatch_.req :
            host_vst_dispatch_.req[k].opcode = "effOpen" =>
               host_vst_dispatch_.req[k].payload = "WantsAEffectUpdate")
    /\ [][(disp.opcode = "effOpen" /\ disp.pc = "recv" /\ disp'.pc = "ret") =>
            LET updated == Received(host_vst_dispatch_).payload[1].aeffect
            IN /\ plugin_'.magic = updated.magic
               /\ plugin_'.numInputs = updated.numInputs
               /\ plugin_'.numOutputs = updated.numOutputs
               /\ plugin_'.numParams = updated.numParams]_vars
    /\ [][(disp.opcode = "effOpen" /\ disp.pc = "ret") =>
            plugin_' = plugin_]_vars
    /\ [](bridge = "live" => RefersToThisBridge(plugin_))

\* effOpen is about to return; the plugin has changed its number of
\* parameters since the construction and the host-visible struct shows it.
C14_Witness ==
    /\ disp.opcode = "effOpen"
    /\ disp.pc = "ret"
    /\ disp.sent
    /\ plugin_.numParams # ctor.initialized_plugin[1].numParams
    /\ RefersToThisBridge(plugin_)

ConfigSent == host_vst_control_.to_f # <<>> \/ f_init = "configured"
Patched == plugin_.dispatcher # "null"
ThreadStarted == cb.pc # "none"
StructRead == ctor.initialized_plugin # Nothing

\* C15 as stated: the constructor connects the sockets, starts the
\* callback-receive thread, reads the initial AEffect, sends the
\* configuration and then patches the function pointers; the thread serves
\* callbacks while the constructor waits for the AEffect.
C15_PointersPatchedLast ==
    /\ ThreadStarted => ctor.connected
    /\ StructRead => ThreadStarted
    /\ ConfigSent => StructRead
    /\ Patched => ConfigSent
    /\ ctor.pc = "receive" => ThreadStarted

\* C15, amended: the constructor connects the sockets, patches the function
\* pointers and the bridge slot, starts the callback-receive thread, reads
\* the initial AEffect, sends the configuration and then copies the fields of
\* the initial AEffect into the host-visible struct; the thread serves
\* callbacks while the constructor waits for the AEffect, and the
\* configuration is sent only after the AEffect was received.
C15_ConstructionOrder ==
    /\ Patched => ctor.connected
    /\ Patched => RefersToThisBridge(plugin_)
    /\ ThreadStarted => Patched
    /\ StructRead => ThreadStarted
    /\ ConfigSent => StructRead
    /\ plugin_.magic # 0 => ConfigSent
    /\ bridge = "live" <=> plugin_.magic # 0
    /\ ctor.pc = "receive" => ThreadStarted
    /\ host.other_calls > 0 => ThreadStarted

\* The constructor is blocked reading the AEffect that F has not written yet
\* and the host has been called back by the plugin.
C15_Witness ==
    /\ ctor.pc = "receive"
    /\ host_vst_control_.to_n = <<>>
    /\ f_init = "loading"
    /\ host.other_calls > 0
    /\ ~ConfigSent

ProxyAlive(id) == proxy[id].state \in {"live", "destructing"}
RECURSIVE SumOver(_, _)
SumOver(count, ids) ==
    IF ids = {} THEN 0
    ELSE LET i == CHOOSE j \in ids : TRUE
         IN count[i] + SumOver(count, ids \ {i})

\* C16: whatever the host creates, calls and destroys, every proxy is
\* registered exactly once, when it is constructed, and unregistered exactly
\* once, when it is destroyed; the registry holds the proxies that are
\* registered and not unregistered; and whenever no proxy is alive there
\* have been as many registrations as deregistrations and the registry is
\* empty.
C16_RegisteredOnceUnregisteredOnce ==
    /\ \A id \in InstanceIds :
         /\ vst3_log.registered[id] =
               IF proxy[id].state = "none" THEN 0 ELSE 1
         /\ vst3_log.unregistered[id] <= 1
         /\ proxy[id].state = "destroyed" => vst3_log.unregistered[id] = 1
         /\ proxy[id].state \in {"none", "live"} =>
               vst3_log.unregistered[id] = 0
         /\ id \in plugin_proxies <=>
               (vst3_log.registered[id] = 1 /\ vst3_log.unregistered[id] = 0)
    /\ (\A id \in InstanceIds : ~ProxyAlive(id)) =>
          /\ SumOver(vst3_log.registered, InstanceIds) =
                SumOver(vst3_log.unregistered, InstanceIds)
          /\ plugin_proxies = {}

\* A proxy was created, called and destroyed, and none is alive.
C16_Witness ==
    /\ \E id \in InstanceIds : proxy[id].state = "destroyed"
    /\ \A id \in InstanceIds : ~ProxyAlive(id)
    /\ \A t \in Vst3Threads : vst3_call[t].pc = "idle"
    /\ vst3_log.calls = MaxVst3Calls
    /\ SumOver(vst3_log.registered, InstanceIds) = 1
    /\ plugin_proxies = {}

\* The requests that carry the instance id: every request about an object,
\* and a Connect or Disconnect that names it as the other object.
CarriesId(msg, id) ==
    /\ msg.type # "Construct"
    /\ \/ msg.instance_id = id
       \/ /\ msg.type = "Connect"
          /\ "instance_id" \in DOMAIN msg.other
          /\ msg.other.instance_id = id
       \/ /\ msg.type = "Disconnect"
          /\ msg.other_instance_id = Some(id)
Requests(sock) == {r.msg : r \in sock.req}
\* Destruct is sent at most once for an instance id and once the proxy is
\* gone it was sent once; it is sent while the proxy is registered; after it
\* no request carrying the id is sent.
DestructOnceWhileRegistered ==
    /\ [](\A id \in InstanceIds :
            /\ vst3_log.destructs[id] <= 1
            /\ proxy[id].state = "destroyed" => vst3_log.destructs[id] = 1
            /\ proxy[id].state \in {"none", "live"} =>
                  vst3_log.destructs[id] = 0)
    /\ [][\A id \in InstanceIds :
            vst3_log'.destructs[id] # vst3_log.destructs[id] =>
               /\ id \in plugin_proxies
               /\ [type |-> "Destruct", instance_id |-> id]
                     \in Requests(vst3_sock') \ Requests(vst3_sock)]_vars
    /\ [][\A id \in InstanceIds :
            \A msg \in Requests(vst3_sock') \ Requests(vst3_sock) :
               (CarriesId(msg, id) /\ vst3_log.destructs[id] > 0) => FALSE]_vars

\* C17 as stated: Destruct is sent exactly once, while the proxy is still
\* registered, no request with the id follows, and every instance id in the
\* registry has exactly one live object with that id on F.
C17_RegisteredHasForeignObject ==
    /\ DestructOnceWhileRegistered
    /\ [](\A id \in plugin_proxies : id \in f_objects.live)

\* C17, amended: Destruct is sent exactly once, while the proxy is still
\* registered, and no request with the id follows; every instance id in the
\* registry whose Destruct has not been sent has exactly one live object with
\* that id on F, and after F has handled the Destruct the id stays in the
\* registry without an object on F until the destructor unregisters it.
C17_DestructBeforeUnregister ==
    /\ DestructOnceWhileRegistered
    /\ [](\A id \in plugin_proxies :
            vst3_log.destructs[id] = 0 => id \in f_objects.live)
    /\ [](\A id \in InstanceIds :
            id \in f_objects.live =>
               (vst3_log.destructs[id] = 0 \/ id \in plugin_proxies))

\* F has destroyed the object and answered; the proxy's destructor has not
\* unregistered it yet.
C17_Witness ==
    \E t \in Vst3Threads :
       /\ vst3_call[t].pc = "d_unregister"
       /\ vst3_call[t].id \in plugin_proxies
       /\ vst3_call[t].id \notin f_objects.live
       /\ vst3_log.destructs[vst3_call[t].id] = 1

\* The thread t enters the method op in this step.
Enters(t, op) == vst3_call[t].pc = "idle" /\ vst3_call'[t].op = op
\* The thread t is inside the method op on the proxy id.
Inside(t, op, id) ==
    /\ vst3_call[t].pc # "idle"
    /\ vst3_call[t].op = op
    /\ vst3_call[t].id = id
NewRequests == Requests(vst3_sock') \ Requests(vst3_sock)

\* C18: connect(other) on the proxy A with one of our proxies B as other
\* sends one Connect with the ids of A and B and nothing else, leaves A's
\* stored connection object as it was, and F creates no mirror connection
\* point for it; with any other object, the object is stored in A and one
\* Connect with the construction arguments of a mirror proxy is sent.
C18_ConnectProxiesDirectly ==
    /\ [][\A t \in Vst3Threads :
            Enters(t, "connect") =>
               LET A == vst3_call'[t].id
                   other == vst3_call'[t].arg[1]
               IN IF other.kind = "proxy"
                    THEN /\ NewRequests =
                               {[type |-> "Connect", instance_id |-> A,
                                 other |-> [instance_id |-> other.id]]}
                         /\ proxy' = proxy
                    ELSE /\ NewRequests =
                               {[type |-> "Connect", instance_id |-> A,
                                 other |-> [construct_args |->
                                              [object |-> other,
                                               owner_instance_id |-> A]]]}
                         /\ proxy'[A].connection_point_proxy = Some(other)]_vars
    /\ [][\A t \in Vst3Threads : \A A \in InstanceIds :
            (Inside(t, "connect", A) /\ vst3_call[t].arg[1].kind = "proxy") =>
               /\ proxy'[A].connection_point_proxy =
                     proxy[A].connection_point_proxy
               /\ \A msg \in NewRequests : ~CarriesId(msg, A)
               /\ {m \in f_objects'.mirrors :
                      m.kind = "connection_point" /\ m.owner = A}
                  = {m \in f_objects.mirrors :
                       m.kind = "connection_point" /\ m.owner = A}]_vars
    /\ [](\A m \in f_objects.mirrors :
            m.kind = "connection_point" =>
               /\ m.object.kind = "host"
               /\ proxy[m.owner].connection_point_proxy # Nothing)

\* connect(B) on A has returned from F: the two objects are connected on F,
\* A stores no connection object and F has no mirror proxy.
C18_Witness ==
    \E t \in Vst3Threads : \E A, B \in InstanceIds :
       /\ Inside(t, "connect", A)
       /\ vst3_call[t].pc = "return"
       /\ vst3_call[t].arg = Some([kind |-> "proxy", id |-> B])
       /\ <<A, B>> \in f_objects.connections
       /\ proxy[A].connection_point_proxy = Nothing
       /\ f_objects.mirrors = {}

\* C19: notify(message) sends one Notify with the proxy's id and the message
\* when the message is a YaMessagePtr; for any other message it sends
\* nothing, logs a warning and returns kNotImplemented.
C19_NotifyForwardsOwnMessagesOnly ==
    /\ [][\A t \in Vst3Threads :
            Enters(t, "notify") =>
               LET id == vst3_call'[t].id
                   message == vst3_call'[t].arg[1]
               IN IF message.kind = "YaMessagePtr"
                    THEN /\ NewRequests =
                               {[type |-> "Notify", instance_id |-> id,
                                 message_ptr |-> message]}
                         /\ ~vst3_log'.warned
                    ELSE /\ vst3_sock' = vst3_sock
                         /\ vst3_log'.warned
                         /\ vst3_call'[t].pc = "return"
                         /\ vst3_call'[t].result =
                               Some("kNotImplemented")]_vars
    /\ [][\A t \in Vst3Threads : \A id \in InstanceIds :
            Inside(t, "notify", id) =>
               /\ \A msg \in NewRequests : ~CarriesId(msg, id)
               /\ vst3_call[t].arg[1].kind # "YaMessagePtr" =>
                     /\ vst3_call[t].pc = "return"
                     /\ vst3_call'[t].pc = "idle" \/
                           vst3_call'[t] = vst3_call[t]]_vars
    /\ [](\A msg \in Requests(vst3_sock) :
            msg.type = "Notify" => msg.message_ptr.kind = "YaMessagePtr")

\* notify is about to return kNotImplemented for a message of the host's
\* own type: a warning was logged and nothing is on the socket.
C19_Witness ==
    \E t \in Vst3Threads : \E id \in InstanceIds :
       /\ Inside(t, "notify", id)
       /\ vst3_call[t].pc = "return"
       /\ vst3_call[t].arg = Some([kind |-> "host"])
       /\ vst3_call[t].result = Some("kNotImplemented")
       /\ vst3_log.warned
       /\ vst3_sock.req = {}
       /\ vst3_sock.resp = {}

\* C20: setComponentHandler(h) and initialize(ctx) with a non-null argument
\* store the object in the proxy before the message is sent: whenever F has
\* the message or a mirror proxy made from it, or calls back with the
\* instance id, the proxy holds the object the host passed last, and that is
\* the object the callback is resolved to.
C20_StoredBeforeSent ==
    /\ [](\A msg \in Requests(vst3_sock) :
            /\ msg.type = "SetComponentHandler" =>
                  proxy[msg.instance_id].component_handler =
                     Some(msg.component_handler_proxy_args.object)
            /\ msg.type = "Initialize" =>
                  proxy[msg.instance_id].host_context =
                     Some(msg.host_context_args.object))
    /\ [](\A m \in f_objects.mirrors :
            m.kind \in {"component_handler", "host_context"} =>
               /\ proxy[m.owner][m.kind] # Nothing
               /\ proxy[m.owner][m.kind] = vst3_log.passed[m.owner][m.kind])
    /\ [][(/\ vst3_sock.cb # Nothing
           /\ vst3_sock.cb[1].called = Nothing
           /\ vst3_sock'.cb # Nothing
           /\ vst3_sock'.cb[1].called # Nothing) =>
            LET c == vst3_sock.cb[1]
                passed == vst3_log.passed[c.owner_instance_id][c.kind]
            IN /\ passed # Nothing
               /\ vst3_sock'.cb[1].called = Some(passed)]_vars

\* The host has replaced the component handler while the first message was
\* long handled; F's callback, made while the second message is still on
\* the socket, was resolved to the second handler.
C20_Witness ==
    /\ vst3_sock.cb # Nothing
    /\ vst3_sock.cb[1].kind = "component_handler"
    /\ vst3_sock.cb[1].called # Nothing
    /\ \E msg \in Requests(vst3_sock) :
         /\ msg.type = "SetComponentHandler"
         /\ msg.instance_id = vst3_sock.cb[1].owner_instance_id
         /\ vst3_sock.cb[1].called = Some(Some(msg.component_handler_proxy_args.object))
         /\ \E m \in f_objects.mirrors :
              /\ m.kind = "component_handler"
              /\ m.owner = msg.instance_id
              /\ m.object # msg.component_handler_proxy_args.object

\* ---- C21, C22: createView and the stream queries
\* thread t is handed F's answer to its createView call in this step
ViewAnswered(t) ==
    /\ vst3_call[t].pc = "recv_view"
    /\ vst3_call'[t].pc = "return"
\* C21: createView returns a view proxy no earlier call returned exactly when
\* F's response carries plug-view arguments, and records it in the proxy;
\* otherwise it returns null and the recorded view stays; the recorded view
\* changes at no other step, so it is always the one the latest successful
\* call returned, and a resize callback is routed to it.
C21_CreateViewRecordsLatest ==
    [][/\ \A t \in Vst3Threads :
            ViewAnswered(t) =>
               LET id == vst3_call[t].id
                   created == vst3_call'[t].result[1]
               IN (IF Vst3Response(t).plug_view_args # Nothing
                     THEN /\ created # Nothing
                          /\ created[1].n > proxy[id].plug_views
                          /\ proxy'[id].last_created_plug_view = created
                     ELSE /\ created = Nothing
                          /\ proxy'[id].last_created_plug_view
                                = proxy[id].last_created_plug_view)
       /\ (\A id \in InstanceIds :
              (proxy'[id].last_created_plug_view
                    # proxy[id].last_created_plug_view)
                 => (\E t \in Vst3Threads :
                        ViewAnswered(t) /\ vst3_call[t].id = id))
       /\ ((vst3_sock.cb # Nothing /\ vst3_sock'.cb # Nothing
             /\ vst3_sock.cb[1].called = Nothing
             /\ vst3_sock'.cb[1].called # Nothing
             /\ vst3_sock.cb[1].kind = "last_created_plug_view")
            => vst3_sock'.cb[1].called[1]
                  = proxy[vst3_sock.cb[1].owner_instance_id]
                       .last_created_plug_view)]_vars
\* a second view was created for a proxy and a resize callback reached it
C21_Witness ==
    \E id \in InstanceIds :
       /\ proxy[id].plug_views = 2
       /\ proxy[id].last_created_plug_view = Some([owner |-> id, n |-> 2])
       /\ vst3_sock.cb # Nothing
       /\ vst3_sock.cb[1].called
             = Some(proxy[id].last_created_plug_view)

\* thread t is handed F's answer to its stream query in this step
DataAnswered(t) ==
    /\ vst3_call[t].pc = "recv_data"
    /\ vst3_call'[t].pc = "return"
\* C22: on every getState, getProgramData and getUnitData call the bytes F
\* returned are in the host's stream before the call returns, and the call
\* returns F's result code.
C22_StreamHoldsResponseBytes ==
    [][\A t \in Vst3Threads :
          DataAnswered(t) =>
             /\ vst3_call'[t].arg[1].data = Vst3Response(t).data
             /\ vst3_call'[t].result = Some(Vst3Response(t).result)]_vars
\* C22, the part that holds: the call returns F's result code
C22_ReturnsResultOfF ==
    [][\A t \in Vst3Threads :
          DataAnswered(t) =>
             vst3_call'[t].result = Some(Vst3Response(t).result)]_vars

\* ---- C23, C28, C29: the dispatch opcodes with a special path
\* the dispatch thread reads F's answer to its request in this step
DispAnswered(opcode) ==
    /\ disp.pc = "recv"
    /\ disp.opcode = opcode
    /\ disp'.pc = "ret"
    /\ host_vst_dispatch_.resp # <<>>
\* the request of the running dispatch call, as F received it
C23_RequestCarriesBoth ==
    \A i \in 1..Len(host_vst_dispatch_.req) :
       LET r == host_vst_dispatch_.req[i] IN
          (r.opcode = "effGetSpeakerArrangement" /\ disp.pc = "recv")
             => /\ r.value_payload = Some(disp.value)
                /\ r.object = Some(disp.data[1])
\* C23: for effGetSpeakerArrangement the request carries the host's input
\* arrangement (value pointer) and output arrangement (data pointer); on
\* return the response's value payload is written through value and its
\* main payload through data, never swapped or duplicated.
C23_ArrangementsWrittenBack ==
    [][/\ C23_RequestCarriesBoth
       /\ DispAnswered("effGetSpeakerArrangement") =>
             LET r == Head(host_vst_dispatch_.resp) IN
                /\ disp'.value = r.value_payload[1]
                /\ disp'.data = <<r.payload[1].speakers>>]_vars
\* C23, the parts that hold: both arrangements go out, and the main payload
\* comes back through the data pointer
C23_OutputWrittenBack ==
    [][/\ C23_RequestCarriesBoth
       /\ DispAnswered("effGetSpeakerArrangement") =>
             LET r == Head(host_vst_dispatch_.resp) IN
                disp'.data = <<r.payload[1].speakers>>]_vars

\* the dispatch thread takes a step of an effEditIdle call
EditIdleStep ==
    /\ disp' # disp
    /\ "effEditIdle" \in {disp.opcode, disp'.opcode}
\* C28: dispatch(effEditIdle) is never forwarded: no step of the call sends
\* on a channel, and it returns 0 whether or not a resize was pending.
C28_EditIdleLocal ==
    [][/\ EditIdleStep => UNCHANGED sockVars
       /\ (EditIdleStep /\ disp.pc = "ret") =>
             /\ ~disp.sent
             /\ host'.disp_result = [how |-> "returned",
                                     opcode |-> "effEditIdle",
                                     value |-> 0]]_vars
\* effEditIdle returned after it delivered a pending resize
C28_Witness ==
    /\ host.disp_result = [how |-> "returned", opcode |-> "effEditIdle",
                           value |-> 0]
    /\ \E i \in 1..Len(host.size_calls) :
          /\ host.size_calls[i].by = "gui"
          /\ host.size_calls[i].during = "effEditIdle"
\* effEditIdle returned with no resize pending
C28_WitnessNoResize ==
    /\ host.disp_result = [how |-> "returned", opcode |-> "effEditIdle",
                           value |-> 0]
    /\ host.size_calls = <<>>
    /\ ~incoming_resize_.set

\* C29: dispatch(effCanDo) with the query "hasCockosViewAsConfig" is answered
\* by the bridge with -1 and nothing is sent; every other query is forwarded
\* and the return value of F's answer is returned.
C29_CanDoCockosLocal ==
    [][/\ (disp.opcode = "effCanDo" /\ disp' # disp
           /\ disp.data = <<"hasCockosViewAsConfig">>) =>
             /\ UNCHANGED sockVars
             /\ disp.pc = "ret" /\ ~disp.sent
             /\ host'.disp_result = [how |-> "returned",
                                     opcode |-> "effCanDo", value |-> -1]
       /\ (disp'.opcode = "effCanDo" /\ disp.pc = "idle"
           /\ disp'.data # <<"hasCockosViewAsConfig">>) =>
             disp'.pc = "send"
       /\ DispAnswered("effCanDo") =>
             disp'.return_value = Head(host_vst_dispatch_.resp).return_value
       /\ (disp.opcode = "effCanDo" /\ disp.pc = "ret"
           /\ disp' # disp /\ disp.data # <<"hasCockosViewAsConfig">>) =>
             /\ disp.sent
             /\ host'.disp_result.value = disp.return_value]_vars
\* the libSwell query was answered with -1
C29_Witness ==
    /\ host.disp_result = [how |-> "returned", opcode |-> "effCanDo",
                           value |-> -1]
\* another query came back with F's answer 1
C29_WitnessForwarded ==
    /\ host.disp_result = [how |-> "returned", opcode |-> "effCanDo",
                           value |-> 1]

\* ---- C24, C25: ScopedValueCache
\* a guard that set() returned (or one it was moved into) is in scope
GuardAlive ==
    \E g \in Guards : guards[g].state = "alive" /\ guards[g].is_active_
\* C24: get() returns a value exactly while at least one guard returned by
\* set() is alive; with two overlapping set() calls the end of one guard
\* does not empty the cache while the other lives.
C24_ValueIffGuardAlive ==
    (scoped_get(scoped_value_cache) # Nothing) <=> GuardAlive
\* C24, what holds: with no guard alive the cache is empty
C24_EmptyWithoutGuard ==
    scoped_get(scoped_value_cache) # Nothing => GuardAlive

\* C25: set() while a value is already cached raises a runtime error.
C25_SetWhileCachedRaises ==
    [][(ScopedSet /\ scoped_value_cache.value_ # Nothing)
          => cache_call'.result = "runtime_error"]_vars

\* ---- C26: TimedValueCache
\* the times the clock can show from now on, and a while beyond
TimesFrom(t) == t..(MaxTime + MaxLifetime + 1)
\* C26: before the first set() get() returns nothing; after set(v, L) at
\* time t get() returns v at every time up to t + L and nothing later;
\* get_and_keep_alive(L2) moves the expiry to now + L2 only while the value
\* is alive and never revives it; nothing else moves the expiry.
C26_TimedCacheExpiry ==
    /\ \A t \in TimesFrom(StartTime) :
          timed_get(timed_value_cache, t) = Nothing
    /\ [][/\ TimedSet =>
               \A t \in TimesFrom(now) :
                  timed_get(timed_value_cache', t)
                     = IF t <= now + cache_call'.lifetime
                         THEN Some(cache_call'.value) ELSE Nothing
          /\ TimedGetAndKeepAlive =>
               IF timed_get(timed_value_cache, now) # Nothing
                 THEN /\ cache_call'.result
                            = timed_get(timed_value_cache, now)
                      /\ \A t \in TimesFrom(now) :
                            timed_get(timed_value_cache', t)
                               = IF t <= now + cache_call'.lifetime
                                   THEN cache_call'.result ELSE Nothing
                 ELSE /\ cache_call'.result = Nothing
                      /\ \A t \in TimesFrom(now) :
                            timed_get(timed_value_cache', t) = Nothing
          /\ (TimedGet \/ Tick) =>
               UNCHANGED timed_value_cache
          /\ TimedGet =>
               cache_call'.result = timed_get(timed_value_cache, now)]_vars
\* a value set or kept alive after the start has expired: get() one second
\* after its expiry returned nothing
C26_Witness ==
    /\ cache_call.op = "get"
    /\ cache_call.result = Nothing
    /\ timed_value_cache.valid_until_ > StartTime + MaxLifetime
    /\ now = timed_value_cache.valid_until_ + 1

\* ---- C27: the priority synchronisation of the audio thread
\* the audio thread enters do_process in this step
AudioEnters == aud.pc = "idle" /\ aud'.pc # "idle"
SyncDue ==
    now > last_audio_thread_priority_synchronization_
             + audio_thread_priority_synchronization_interval
\* C27: an audio request carries a realtime priority only when more than
\* 10 seconds have passed since the last synchronisation, and the timestamp
\* advances only on such requests; the attached value is the audio thread's
\* priority under SCHED_FIFO and is absent otherwise.
C27_PrioritySyncEveryInterval ==
    [][/\ AudioEnters =>
            IF SyncDue
              THEN /\ last_audio_thread_priority_synchronization_' = now
                   /\ aud'.new_realtime_priority
                         = IF audio_thread_sched.policy = "SCHED_FIFO"
                             THEN Some(audio_thread_sched.priority)
                             ELSE Nothing
              ELSE /\ UNCHANGED last_audio_thread_priority_synchronization_
                   /\ aud'.new_realtime_priority = Nothing
       /\ ~AudioEnters =>
            UNCHANGED last_audio_thread_priority_synchronization_
       /\ Len(host_vst_process_replacing_'.req)
             > Len(host_vst_process_replacing_.req) =>
            host_vst_process_replacing_'.req[
                  Len(host_vst_process_replacing_'.req)]
               .new_realtime_priority = aud.new_realtime_priority]_vars
\* a later request carries the priority again, more than 10 s after the
\* first synchronisation
C27_Witness ==
    /\ host.blocks >= 2
    /\ host_vst_process_replacing_.req # <<>>
    /\ Head(host_vst_process_replacing_.req).new_realtime_priority # Nothing
    /\ last_audio_thread_priority_synchronization_ = now
    /\ now > StartTime
             + audio_thread_priority_synchronization_interval
\* a request within the interval goes without a priority although the thread
\* runs under SCHED_FIFO
C27_WitnessNotDue ==
    /\ host_vst_process_replacing_.req # <<>>
    /\ Head(host_vst_process_replacing_.req).new_realtime_priority = Nothing
    /\ audio_thread_sched.policy = "SCHED_FIFO"
    /\ now > last_audio_thread_priority_synchronization_

\* ---- C30: the hide_daw option
\* the callback thread answers a name query in this step
NameAnswered ==
    /\ cb.pc = "handle"
    /\ cb.event.opcode \in NameQueries
    /\ cb'.pc = "recv"
\* C30: with hide_daw on, GetProductString and GetVendorString are answered
\* by the bridge with return value 1 and the fixed override strings and the
\* host's callback is not invoked; with it off they are passed to the host
\* and the host's answer is returned.
C30_HideDawAnswersLocally ==
    [][NameAnswered =>
          LET response == vst_host_callback_'.resp[
                             Len(vst_host_callback_'.resp)]
          IN /\ Len(vst_host_callback_'.resp)
                   = Len(vst_host_callback_.resp) + 1
             /\ IF config_.hide_daw
                  THEN /\ response.return_value = 1
                       /\ response.payload
                             = IF cb.event.opcode
                                     = "audioMasterGetProductString"
                                 THEN "Get yabridge'd" ELSE "yabridge"
                       /\ UNCHANGED host
                  ELSE /\ host'.other_calls = host.other_calls + 1
                       /\ response \in HostNameAnswers(cb.event.opcode)]_vars
\* the product name was asked for and hidden
C30_Witness ==
    /\ config_.hide_daw
    /\ host.other_calls = 0
    /\ vst_host_callback_.resp
          = <<[return_value |-> 1, payload |-> "Get yabridge'd",
               value_payload |-> Nothing]>>
\* the host answered the query itself
C30_WitnessPassthrough ==
    /\ ~config_.hide_daw
    /\ host.other_calls = 1
    /\ vst_host_callback_.resp # <<>>
    /\ Head(vst_host_callback_.resp).payload = "REAPER"

\* ---------------------------------------------------------------- C31
\* What the thread that holds a mutex is about to do: the audio thread calls
\* the host's callback in a round of the flush loop and is on its socket in
\* the steps "send" and "recv"; the GUI thread calls the host's callback in
\* effEditIdle after the request was taken and is on its socket between the
\* sending of the event and the reading of the response.
AudioCallsHost ==
    aud.pc = "flushing" /\ aud.idx <= Len(incoming_midi_events_)
AudioOnSocket == aud.pc \in {"send", "recv"}
GuiCallsHost == disp.pc = "ei_call"
GuiOnSocket == disp.pc \in {"send", "recv"}

\* C31: neither the MIDI-events mutex nor the pending-resize mutex is held
\* while the thread holding it invokes a host callback or sends or receives
\* on a socket.
C31_MutexesOnlyAcrossQueueAccess ==
    /\ incoming_midi_events_mutex_ # Free =>
          ~(AudioCallsHost \/ AudioOnSocket)
    /\ incoming_resize_mutex_ # Free => ~(GuiCallsHost \/ GuiOnSocket)

\* The part of C31 that the code keeps: the pending-resize mutex is released
\* before the host's callback is called, and no mutex is held by a thread
\* that is on a socket.
C31_ResizeMutexReleasedBeforeCall ==
    incoming_resize_mutex_ # Free => ~(GuiCallsHost \/ GuiOnSocket)
C31_NoSocketWhileLocked ==
    incoming_midi_events_mutex_ # Free => ~AudioOnSocket

\* ---------------------------------------------------------------- C32
\* The objects that are alive and hold the mode saved by construction s.
FlushHolders(s) ==
    {h \in FlushScopes : /\ flush_scopes[h].state = "alive"
                         /\ flush_scopes[h].old_ftz_mode_ # Nothing
                         /\ flush_scopes[h].scope = s}
FlushEntered(s) == flush_scopes[s].entered # Nothing

C33_BufferExistsWhenCopying ==
    /\ [](aud.pc \in {"copy_in", "copy_out"} => process_buffers_ # Nothing)
    /\ [][(process_buffers_ = Nothing /\ process_buffers_' # Nothing) =>
             (/\ disp.opcode = "effMainsChanged"
              /\ disp.value = 1
              /\ disp.pc = "recv"
              /\ Received(host_vst_dispatch_).payload # Nothing)]_vars
    /\ [][process_buffers_ # Nothing => process_buffers_' # Nothing]_vars

\* The second block is about to be copied into the buffer that the first
\* effMainsChanged(1) created and a later one resized.
C33_Witness ==
    /\ aud.pc = "copy_in"
    /\ aud.blk = 2
    /\ process_buffers_ # Nothing
    /\ process_buffers_[1].via = "resize"
    /\ host.mains

\* ---------------------------------------------------------------- C34
\* The host's thread enters dispatch / leaves it.
DispEnters == disp.pc = "idle" /\ disp'.pc # "idle"
DispLeaves == disp.pc = "ret" /\ disp'.pc = "idle"

\* C34: a dispatch call that finds plugin_.magic = 0 is ignored, whatever
\* its opcode: it goes straight to its return with value 0 and without the
\* bridge marked for deletion, nothing is written to a socket and no state of
\* the bridge changes; and such a call returns that 0 to the host with the
\* bridge neither torn down nor changed.  While the constructor runs nothing
\* has been sent on the dispatch socket.
C34_IgnoredWhileUninitialised ==
    /\ [][(DispEnters /\ plugin_.magic = 0) =>
             (/\ disp'.pc = "ret"
              /\ disp'.return_value = 0
              /\ ~disp'.bridge_
              /\ ~disp'.sent
              /\ UNCHANGED <<fVars, sockVars, process_buffers_, chunkVars,
                             incoming_resize_, incoming_midi_events_,
                             bridge, plugin_>>)]_vars
    /\ [][(DispLeaves /\ ~disp.bridge_) =>
             (/\ host'.disp_result = [how |-> "returned",
                                      opcode |-> disp.opcode,
                                      value |-> disp.return_value]
              /\ host'.teardowns = host.teardowns
              /\ UNCHANGED <<fVars, sockVars, process_buffers_, chunkVars,
                             bridge, plugin_>>)]_vars
    /\ [](bridge = "constructing" =>
             (/\ plugin_.magic = 0
              /\ host_vst_dispatch_ = EmptySocket
              /\ host.teardowns = 0
              /\ process_buffers_ = Nothing))

\* The host dispatched effClose while the constructor was still running; the
\* call has returned 0 and the constructor then finished: the bridge lives.
C34_Witness ==
    /\ host.disp_result = [how |-> "returned", opcode |-> "effClose",
                           value |-> 0]
    /\ bridge = "live"
    /\ plugin_.magic # 0
    /\ host_vst_dispatch_ = EmptySocket
    /\ host.teardowns = 0

\* ---------------------------------------------------------------- C35
\* The thread t enters setComponentHandler or initialize with a null pointer.
EntersWithNull(t) ==
    /\ vst3_call[t].pc = "idle"
    /\ vst3_call'[t].pc # "idle"
    /\ vst3_call'[t].op \in {"setComponentHandler", "initialize"}
    /\ vst3_call'[t].arg = Some([kind |-> "null", obj |-> 0])

\* C35: setComponentHandler(null) and initialize(null) go straight to their
\* return with kInvalidArgument and a logged warning: no message is sent to F
\* and the objects stored in the proxies stay as they were.
C35_NullArgumentRejected ==
    [][\A t \in Vst3Threads :
          EntersWithNull(t) =>
             (/\ vst3_call'[t].pc = "return"
              /\ vst3_call'[t].result = Some("kInvalidArgument")
              /\ vst3_call'[t].sent = <<>>
              /\ vst3_log'.warned
              /\ UNCHANGED <<proxy, plugin_proxies, vst3_sock, f_objects>>)]_vars

\* A proxy that holds a component handler was given a null handler: the call
\* is about to return kInvalidArgument and the handler is still stored.
C35_Witness ==
    \E t \in Vst3Threads :
       /\ vst3_call[t].pc = "return"
       /\ vst3_call[t].op = "setComponentHandler"
       /\ vst3_call[t].arg = Some([kind |-> "null", obj |-> 0])
       /\ vst3_call[t].result = Some("kInvalidArgument")
       /\ proxy[vst3_call[t].id].component_handler # Nothing

\* ---------------------------------------------------------------- C36
\* The call's inputs as the claim names them: the bundle directory three
\* levels up, and whether the bundle holds the 64-bit and the 32-bit module
\* under this library's name.
FoundBundle == parent_path(parent_path(parent_path(fn_call.this_plugin_path)))
ModuleFile(arch) ==
    FoundBundle \o <<PathComponent("Contents", ""), PathComponent(arch, ""),
                     PathComponent(filename(fn_call.this_plugin_path).stem,
                                   ".vst3")>>
ModuleIn(arch) == {f \in fn_call.files : f.path = ModuleFile(arch)}
ResultIs(modules) ==
    /\ ~fn_call.result.threw
    /\ \E f \in modules : fn_call.result.path = f.target

\* C36: find_plugin_library returns the 32-bit module when prefer_32bit is set
\* and that module exists, else the 64-bit module when it exists, else the
\* 32-bit module when it exists, else it throws; and it always throws when
\* the bundle directory's name does not end in .vst3.
C36_FindPluginLibraryChoice ==
    fn_call.op = "find_plugin_library" =>
       IF extension(FoundBundle) # ".vst3"
         THEN fn_call.result.threw
         ELSE CASE fn_call.prefer_32bit_vst3 /\ ModuleIn("x86-win") # {} ->
                      ResultIs(ModuleIn("x86-win"))
                [] ModuleIn("x86_64-win") # {} ->
                      ResultIs(ModuleIn("x86_64-win"))
                [] ModuleIn("x86-win") # {} -> ResultIs(ModuleIn("x86-win"))
                [] OTHER -> fn_call.result.threw

\* Both modules are in the bundle and the 32-bit one is preferred: the
\* 32-bit module's resolved path is returned.
C36_Witness ==
    /\ fn_call.op = "find_plugin_library"
    /\ fn_call.prefer_32bit_vst3
    /\ fn_call.files = {Module64, Module32}
    /\ ~fn_call.result.threw
    /\ fn_call.result.path = Module32.target
\* Both modules are in the bundle and nothing is preferred: the 64-bit one.
C36_Witness64 ==
    /\ fn_call.op = "find_plugin_library"
    /\ ~fn_call.prefer_32bit_vst3
    /\ fn_call.files = {Module64, Module32}
    /\ ~fn_call.result.threw
    /\ fn_call.result.path = Module64.target

\* ---------------------------------------------------------------- C37
\* C37: the width and height the host's audioMasterSizeWindow callback gets
\* are the values of the request that this effEditIdle took out of the slot,
\* and no request's values are handed to the host twice.
C37_ResizeArgsAreTakenRequest ==
    \A k \in DOMAIN host.size_calls :
       /\ host.size_calls[k].args = host.size_calls[k].taken
       /\ \A j \in DOMAIN host.size_calls :
             j < k => host.size_calls[j].args # host.size_calls[k].args

\* ---------------------------------------------------------------- C38
\* The thread t has got F's string and written it to the host's array.
StringAnswered(t) ==
    /\ vst3_call[t].pc = "return"
    /\ vst3_call[t].op \in StringOps

\* C38: every index written into the host's String128, the terminator's
\* included, lies within the array.
C38_StringWritesInBounds ==
    \A t \in Vst3Threads :
       StringAnswered(t) => vst3_call[t].arg[1].outside = {}

\* What holds of the code: a string of fewer than String128Size characters
\* is copied whole and terminated inside the array.
C38_ShortStringsFit ==
    \A t \in Vst3Threads :
       (StringAnswered(t) /\
        \E n \in 0..(String128Size - 1) :
           vst3_call[t].arg[1].chars[n] = "NUL") =>
          vst3_call[t].arg[1].outside = {}

\* ---------------------------------------------------------------- C39
\* C39: equals_case_insensitive(a, b) is true exactly when a and b have the
\* same length and agree character by character ignoring case, and it reads
\* no character past the end of the shorter string.
C39_EqualsIffSameIgnoringCase ==
    fn_call.op = "equals_case_insensitive" =>
       /\ fn_call.result <=>
             (/\ Len(fn_call.a) = Len(fn_call.b)
              /\ \A i \in 1..Len(fn_call.a) :
                    tolower(fn_call.a[i]) = tolower(fn_call.b[i]))
       /\ \A i \in fn_call.reads : i <= Len(fn_call.a) /\ i <= Len(fn_call.b)

\* What holds of the code: the result is true exactly when a, ignoring case,
\* is a prefix of b; so for strings of one length it is the comparison the
\* claim describes.
C39_TrueIffPrefix ==
    fn_call.op = "equals_case_insensitive" =>
       (fn_call.result <=>
           (/\ Len(fn_call.a) <= Len(fn_call.b)
            /\ \A i \in 1..Len(fn_call.a) :
                  tolower(fn_call.a[i]) = tolower(fn_call.b[i])))

\* ---------------------------------------------------------------- C40
\* a guard has just been moved into another one
GuardMoved == cache_call.op \in {"move", "move_assign"}
\* the cache after the guard is destroyed now
AfterDestroying(g) == guard_destructor(scoped_value_cache, guards[g])
\* C40: after move-construction or move-assignment of a guard the
\* destruction of the moved-from guard leaves the cached value in place and
\* the destruction of the guard that received the move clears it, also when
\* the receiving guard had itself been moved from earlier.
C40_MoveTransfersClearing ==
    GuardMoved =>
       /\ AfterDestroying(cache_call.from) = scoped_value_cache
       /\ AfterDestroying(cache_call.to).value_ = Nothing

\* What holds of the code: the moved-from guard never clears the cache, and
\* the guard made by move construction does.
C40_MoveConstructionTransfers ==
    /\ GuardMoved => AfterDestroying(cache_call.from) = scoped_value_cache
    /\ cache_call.op = "move" =>
          AfterDestroying(cache_call.to).value_ = Nothing

====
